---- MODULE Spec2Model ----
(***************************************************************************)
(* A model of metal-promise's CancellablePromise (src/src/promise/         *)
(* Promise.js): the promise state machine, the resolution procedure, the   *)
(* linked callback queue, cancellation and unhandled-rejection tracking.   *)
(* Every scheduled function (async.run) is one entry of workQueue and one  *)
(* RunTask step runs it to completion, as the single-threaded scheduler    *)
(* does.  Synchronous call chains of the source are operators over a       *)
(* record S that bundles the heap; S.exc carries a thrown value upward     *)
(* until a try/catch of the source clears it.                              *)
(***************************************************************************)
EXTENDS Integers, Sequences, FiniteSets, TLC

\* ------------------------------------------------------------- bounds ----
MaxPromises == 4      \* promise objects the heap holds

\* ---------------------------------------------------- program constants --
PENDING   == 0
BLOCKED   == 1
FULFILLED == 2
REJECTED  == 3
UNHANDLED_REJECTION_DELAY == 0
DEFAULT_MAX_UNUSED == 100
\* progress values are counted in 1/Unit: Val(Unit) is the number 1
Unit == 4

Pid == 1..MaxPromises

\* ------------------------------------------------------------- values ----
\* A JavaScript value: k is its kind, n its identity, m a message.
Val(n)      == [k |-> "val", n |-> n, m |-> 0]
Undef       == [k |-> "undef", n |-> 0, m |-> 0]
Null        == [k |-> "null", n |-> 0, m |-> 0]
PRef(p)     == [k |-> "promise", n |-> p, m |-> 0]
\* a foreign object with a callable then; n selects what its then does,
\* m = 1 when it carries the $goog_Thenable marker
Thenable(n, marked) == [k |-> "thenable", n |-> n, m |-> marked]
\* new CancellationError(msg) with IS_CANCELLATION_ERROR set; n tells two
\* error objects apart
CancellationError(n, msg) == [k |-> "cancel", n |-> n, m |-> msg]
\* new TypeError(...): n = 1 'Promise cannot resolve to itself',
\* n = 2 a property read on undefined or null,
\* n = 3 a call of a value that is no function,
\* n = 4 'The progress percentage should be a number between 0 and 1'
TypeError(n) == [k |-> "typeerror", n |-> n, m |-> 0]
\* new Error(...): n = 1 'state_ should be block',
\* n = 2 'onFulfilled should not be null',
\* n = 3 'opt_onFulfilled/opt_onRejected should be a function.',
\* n = 4 'The progress percentage can't be lower than the previous
\* percentage'
Error(n)    == [k |-> "error", n |-> n, m |-> 0]
\* the ReferenceError of reading a name that is not defined
ReferenceError == [k |-> "referenceerror", n |-> 0, m |-> 0]
NoExc       == [k |-> "none", n |-> 0, m |-> 0]
NoArg       == [k |-> "noarg", n |-> 0, m |-> 0]
\* the array that the resolver of all built for promise p, told apart by p
ArrayOf(p)  == [k |-> "array", n |-> p, m |-> 0]
\* an index of an array that was never assigned
Hole        == [k |-> "hole", n |-> 0, m |-> 0]
\* the result objects of allSettled: {fulfilled: true, value: result} has
\* n = 1, {fulfilled: false, reason: result} has n = 0, m is the result
ResultObject(fulfilled, result) ==
  [k |-> "result", n |-> IF fulfilled THEN 1 ELSE 0, m |-> result]

\* x.IS_CANCELLATION_ERROR: reading a property of undefined or null throws
ReadThrows(x) == x.k \in {"undef", "null"}
IsCancellationError(x) == x.k = "cancel"
\* isDef(x): x !== undefined
isDef(x) == x.k # "undef"

\* ---------------------------------------------------------- functions ----
\* A function value held in a callback entry or passed to then.
\*  f = "null"        no function (null)
\*  f = "nullFunction" the shared no-op
\*  f = "user"        a user handler: b is what it does ("ret" returns v,
\*                    "throw" throws v, "reg" registers a callback on the
\*                    promise v.n and returns undefined), id names the
\*                    registration for the invocation log
\*  f = "wrapF"/"wrapR" the closure of addChildPromise_ around a user
\*                    handler, p is the child whose resolve/reject it holds
\*  f = "resolve"/"reject" the resolve/reject function of promise p
\*  f = "unblockF"/"unblockR" unblockAndFulfill_/unblockAndReject_ bound to p
\*  f = "onFulfill"/"onReject" the closures of the resolver of all for the
\*                    promise p it made; id is the index that partial
\*                    bound to onFulfill, counted from 1
\*  f = "onSettled"   onSettled of the resolver of allSettled for promise
\*                    p, id the index and s = "F" for fulfilled true,
\*                    s = "R" for fulfilled false, as partial bound them
\*  f = "firstOnFulfill"/"firstOnReject" onFulfill and onReject of the
\*                    resolver of firstFulfilled for promise p, id the
\*                    index partial bound to onReject
\*  f = "value"       no function but the value v, handed over where a
\*                    handler is expected (b = "notfn")
\*  s is the side a user handler was registered on: "F" fulfilment,
\*  "R" rejection, "A" always
Fn(f, p, b, v, id, s) ==
  [f |-> f, p |-> p, b |-> b, v |-> v, id |-> id, s |-> s]
NullFn       == Fn("null", 0, "", Undef, 0, "")
nullFunction == Fn("nullFunction", 0, "", Undef, 0, "")
UserFn(b, v) == Fn("user", 0, b, v, 0, "")
IsNullFn(fn) == fn.f = "null"
\* a value that is no function, handed over as a handler
NotFn(v)     == Fn("value", 0, "notfn", v, 0, "")
\* isFunction(fn), and the truthiness of fn: of the values that are no
\* function, 0 is falsy
isFunction(fn) == fn.f \notin {"null", "value"}
Truthy(fn)   == fn.f # "null" /\ (fn.f = "value" => fn.v # Val(0))
\* the handler h as registered by registration id on side s
Named(h, id, s) == IF IsNullFn(h) THEN h ELSE [h EXCEPT !.id = id, !.s = s]

\* new CallbackEntry_(); proto tells whose methods the object has
CallbackEntry_ ==
  [child |-> 0, onFulfilled |-> NullFn, onRejected |-> NullFn,
   always |-> FALSE, next |-> 0, proto |-> "CallbackEntry_"]
\* the object literal {child: null, onFulfilled: null, onRejected: null}
\* of ProgressPromise's addChildPromise_: it has no always, no next and
\* no reset
PlainEntry == [CallbackEntry_ EXCEPT !.proto = "Object"]

\* CallbackEntry_.prototype.reset: next is not touched
reset(e) ==
  [e EXCEPT !.child = 0, !.onFulfilled = NullFn, !.onRejected = NullFn,
            !.always = FALSE]

\* scheduled functions
ExecTask(p)        == [t |-> "exec", p |-> p, v |-> Undef]
\* partial(onFulfilled, value) of resolveThen_, onFulfilled being fn
CallTask(fn, value) == [t |-> "call", p |-> fn.p, v |-> value, fn |-> fn]
CheckTask(p, x)    == [t |-> "check", p |-> p, v |-> x]

VARIABLES
  state_, result_, parent_, callbackEntries_, callbackEntriesTail_,
  executing_, hadUnhandledRejection_,
  progress_,       \* per ProgressPromise, the stored progress, in 1/Unit
  listeners_,      \* per ProgressPromise, its progress listeners, in order
  toFulfill,       \* per promise made by all, allSettled or firstFulfilled,
                   \* the counter of its resolver: toFulfill, toSettle,
                   \* toReject
  values,          \* per such promise, the array of its resolver: values,
                   \* results, reasons
  numPromises,     \* promises constructed so far
  entries,         \* the CallbackEntry_ objects allocated so far, in order
  numEntries,      \* entry objects allocated so far
  freelist_,       \* the pool of unused entries
  workQueue,       \* functions scheduled with async.run, oldest first
  reported,        \* values handed to handleRejection_, in order
  uncaught,        \* values thrown out of a task or a user call
  log,             \* user handler invocations, in order
  regs,            \* one record per registration call, in order; ret is
                   \* the promise the call returned, 0 when it returned none
  firstCall,       \* per promise, the first of the calls counted below
  numCalls,        \* per promise, the calls user code made of its resolve
                   \* and reject, a throw of its resolver counting as one
  numCancels,      \* cancel() calls made / CancellationErrors built
  cancels,         \* one record per scheduled cancellation that has run
  checks,          \* one record per scheduled rejection check that has run
  alls,            \* one record per call of all, allSettled,
                   \* firstFulfilled or race (kind), in order: the promise
                   \* p returned, the list given, the state each promise
                   \* of the list was in, and the promises of the list
                   \* that were first after the call to be rejected
                   \* (first), to be fulfilled (firstF), to settle (firstS)
  resolved,        \* one record per call of the static resolve, in order:
                   \* the argument x, the promise ret returned, the
                   \* promises constructed before and after the call
  plog,            \* progress listener invocations, in order: the promise
                   \* p, the listener l, the value v it was given and the
                   \* update u (an index of updates) that invoked it
  updates,         \* one record per run of setProgress_, in order: the
                   \* promise p, the value v given, the progress stored
                   \* before (was) and after (now), the listeners then
                   \* registered (ls), what it threw (exc) and whether the
                   \* resolver's progress function scheduled it (tick)
  issued,          \* per ProgressPromise, the values its resolver gave to
                   \* the progress function before its first call of
                   \* resolve or reject
  last             \* what the last step was

vars == <<state_, result_, parent_, callbackEntries_, callbackEntriesTail_,
          executing_, hadUnhandledRejection_, toFulfill, values,
          numPromises, entries, numEntries, freelist_, workQueue, reported,
          uncaught, log, regs, firstCall, numCalls, numCancels, cancels,
          checks, alls, resolved, progress_, listeners_, plog, updates,
          issued, last>>

\* the heap as one record, for the operators below
Cur ==
  [state_ |-> state_, result_ |-> result_, parent_ |-> parent_,
   callbackEntries_ |-> callbackEntries_,
   callbackEntriesTail_ |-> callbackEntriesTail_,
   executing_ |-> executing_,
   hadUnhandledRejection_ |-> hadUnhandledRejection_,
   toFulfill |-> toFulfill, values |-> values, alls |-> alls,
   resolved |-> resolved,
   progress_ |-> progress_, listeners_ |-> listeners_, plog |-> plog,
   updates |-> updates, issued |-> issued,
   numPromises |-> numPromises, entries |-> entries,
   numEntries |-> numEntries, freelist_ |-> freelist_,
   workQueue |-> workQueue, reported |-> reported, uncaught |-> uncaught,
   log |-> log, regs |-> regs, firstCall |-> firstCall,
   numCalls |-> numCalls, numCancels |-> numCancels,
   exc |-> NoExc, ret |-> Undef, got |-> 0, isThenable |-> FALSE,
   called |-> FALSE, overflow |-> FALSE]

Commit(S) ==
  /\ state_' = S.state_
  /\ result_' = S.result_
  /\ parent_' = S.parent_
  /\ callbackEntries_' = S.callbackEntries_
  /\ callbackEntriesTail_' = S.callbackEntriesTail_
  /\ executing_' = S.executing_
  /\ hadUnhandledRejection_' = S.hadUnhandledRejection_
  /\ toFulfill' = S.toFulfill
  /\ values' = S.values
  /\ resolved' = S.resolved
  /\ progress_' = S.progress_
  /\ listeners_' = S.listeners_
  /\ plog' = S.plog
  /\ updates' = S.updates
  /\ issued' = S.issued
  /\ numPromises' = S.numPromises
  /\ entries' = S.entries
  /\ numEntries' = S.numEntries
  /\ freelist_' = S.freelist_
  /\ workQueue' = S.workQueue
  /\ reported' = S.reported
  /\ log' = S.log
  /\ regs' = S.regs
  /\ firstCall' = S.firstCall
  /\ numCalls' = S.numCalls
  /\ numCancels' = S.numCancels

Throw(S, x)  == [S EXCEPT !.exc = x]
\* a run that needs more objects than the model holds: nothing catches it
\* and the step that made it is not taken
Overflow(S)  == [S EXCEPT !.overflow = TRUE, !.exc = Error(0)]
Caught(S)    == [S EXCEPT !.exc = NoExc]
Threw(S)     == S.exc # NoExc
Settled(s)   == s = FULFILLED \/ s = REJECTED
\* the elements of sequence q
Range(q)     == {q[k] : k \in 1..Len(q)}


\* The methods of the source call each other; the operators that model
\* them do so through Call, defined below the last of them.
RECURSIVE Call(_, _, _)

\* ------------------------------------------------------- construction ---
\* new CancellablePromise(nullFunction): the fields of lines 192-249.  The
\* new promise is S.got; overflow marks a run that needs more objects than
\* the model holds.
newPromise(S) ==
  IF S.numPromises >= MaxPromises THEN Overflow(S)
  ELSE LET p == S.numPromises + 1 IN
       [S EXCEPT !.numPromises = p, !.got = p,
                 !.state_[p] = PENDING, !.result_[p] = Undef,
                 !.parent_[p] = 0, !.callbackEntries_[p] = 0,
                 !.callbackEntriesTail_[p] = 0, !.executing_[p] = FALSE,
                 !.hadUnhandledRejection_[p] = FALSE]

\* async.run(fn): append to the scheduler's queue
asyncRun(S, task) == [S EXCEPT !.workQueue = Append(@, task)]

\* async.nextTick(function): the scheduler's queue
asyncNextTick(S, task) == [S EXCEPT !.workQueue = Append(@, task)]
\* the function progressFn hands to async.nextTick
ProgressTask(p, progress) == [t |-> "progress", p |-> p, v |-> progress]

\* FreeList.get: a recycled entry, blank, or a new one
freelistGet(S) ==
  IF S.freelist_ # <<>>
  THEN LET e == Head(S.freelist_) IN
       [S EXCEPT !.freelist_ = Tail(@), !.entries[e].next = 0, !.got = e]
  ELSE LET e == S.numEntries + 1 IN
       [S EXCEPT !.numEntries = e, !.entries = Append(@, CallbackEntry_),
                 !.got = e]

\* FreeList.put: reset the entry with the function given to the pool,
\* item.reset(), and keep it if the pool has room
freelistPut(S, e) ==
  IF S.entries[e].proto # "CallbackEntry_" THEN Throw(S, TypeError(3))
  ELSE
  LET S1 == [S EXCEPT !.entries[e] = reset(@)] IN
  IF Len(S1.freelist_) < DEFAULT_MAX_UNUSED
  THEN [S1 EXCEPT !.freelist_ = <<e>> \o @]
  ELSE S1

getCallbackEntry_(S, onFulfilled, onRejected) ==
  LET S1 == freelistGet(S) IN
  IF Threw(S1) THEN S1
  ELSE [S1 EXCEPT !.entries[S1.got].onFulfilled = onFulfilled,
                  !.entries[S1.got].onRejected = onRejected]

returnEntry_(S, e) == freelistPut(S, e)

\* ------------------------------------------------------ callback queue --
hasEntry_(S, p) == S.callbackEntries_[p] # 0

queueEntry_(S, p, e) ==
  IF IsNullFn(S.entries[e].onFulfilled) THEN Throw(S, Error(2))
  ELSE IF S.callbackEntriesTail_[p] # 0
  THEN [S EXCEPT !.entries[S.callbackEntriesTail_[p]].next = e,
                 !.callbackEntriesTail_[p] = e]
  ELSE [S EXCEPT !.callbackEntries_[p] = e, !.callbackEntriesTail_[p] = e]

\* popEntry_: the popped entry is S.got, 0 when the queue is empty
popEntry_(S, p) ==
  LET e  == S.callbackEntries_[p]
      S1 == IF e # 0
            THEN [S EXCEPT !.callbackEntries_[p] = S.entries[e].next,
                           !.entries[e].next = 0]
            ELSE S
      S2 == IF S1.callbackEntries_[p] = 0
            THEN [S1 EXCEPT !.callbackEntriesTail_[p] = 0] ELSE S1
  IN [S2 EXCEPT !.got = e]

\* removeEntryAfter_ leaving the tail as it is
removeEntryAfterKeepTail_(S, p, previous) ==
  [S EXCEPT !.entries[previous].next =
              S.entries[S.entries[previous].next].next]

removeEntryAfter_(S, p, previous) ==
  LET nxt == S.entries[previous].next
      S1  == IF nxt = S.callbackEntriesTail_[p]
             THEN [S EXCEPT !.callbackEntriesTail_[p] = previous] ELSE S
  IN [S1 EXCEPT !.entries[previous].next = S.entries[nxt].next]

scheduleCallbacks_(S, p) ==
  IF ~S.executing_[p]
  THEN asyncRun([S EXCEPT !.executing_[p] = TRUE], ExecTask(p))
  ELSE S

\* addCallbackEntry_ draining a settled promise's queue itself instead of
\* scheduling the drain
addCallbackEntryInline_(S, p, e) ==
  IF Settled(S.state_[p]) /\ ~S.executing_[p]
  THEN Call("executeCallbacks_", queueEntry_([S EXCEPT !.executing_[p] = TRUE], p, e), <<p>>)
  ELSE queueEntry_(S, p, e)

addCallbackEntry_(S, p, e) ==
  LET S1 == IF ~hasEntry_(S, p) /\ Settled(S.state_[p])
            THEN scheduleCallbacks_(S, p) ELSE S
  IN queueEntry_(S1, p, e)

\* the entries of p's queue from entry e on, following next
RECURSIVE EntriesFrom(_, _, _)
EntriesFrom(S, e, fuel) ==
  IF e = 0 \/ fuel = 0 THEN <<>>
  ELSE <<e>> \o EntriesFrom(S, S.entries[e].next, fuel - 1)
Queue(S, p) == EntriesFrom(S, S.callbackEntries_[p], S.numEntries + 1)

\* ----------------------------------------------- unhandled rejections ---
\* handleRejection_: the process-wide reporter
handleRejection_(S, x) == [S EXCEPT !.reported = Append(@, x)]

\* the walk of removeUnhandledRejection_ up the parent links
RECURSIVE clearUnhandled(_, _)
clearUnhandled(S, p) ==
  IF p # 0 /\ S.hadUnhandledRejection_[p]
  THEN clearUnhandled([S EXCEPT !.hadUnhandledRejection_[p] = FALSE],
                      S.parent_[p])
  ELSE S

removeUnhandledRejection_(S, p) ==
  IF UNHANDLED_REJECTION_DELAY = 0 THEN clearUnhandled(S, p) ELSE S

addUnhandledRejection_(S, p, reason) ==
  IF UNHANDLED_REJECTION_DELAY = 0
  THEN asyncRun([S EXCEPT !.hadUnhandledRejection_[p] = TRUE],
                CheckTask(p, reason))
  ELSE S

\* ------------------------------------------------------- registration ---
\* thenVoid, past the checks that both arguments are functions or absent
thenVoid(S, p, opt_onFulfilled, opt_onRejected) ==
  LET S1 == getCallbackEntry_(S,
              IF IsNullFn(opt_onFulfilled) THEN nullFunction
              ELSE opt_onFulfilled,
              opt_onRejected)
  IN IF Threw(S1) THEN S1 ELSE addCallbackEntry_(S1, p, S1.got)

\* thenAlways: the promise returned is S.got
thenAlways(S, p, onSettled) ==
  LET S1 == getCallbackEntry_(S, onSettled, onSettled) IN
  IF Threw(S1) THEN S1
  ELSE [addCallbackEntry_([S1 EXCEPT !.entries[S1.got].always = TRUE],
                          p, S1.got) EXCEPT !.got = p]

\* addChildPromise_: the child is S.got.  The child's resolver runs inside
\* its constructor and stores the two closures in the entry.
addChildPromise_(S, p, onFulfilled, onRejected) ==
  LET S1 == getCallbackEntry_(S, NullFn, NullFn)
      e  == S1.got
      S2 == IF Threw(S1) THEN S1 ELSE newPromise(S1)
      c  == S2.got
  IN IF Threw(S2) THEN S2
     ELSE LET S3 == [S2 EXCEPT
                       !.entries[e].child = c,
                       !.entries[e].onFulfilled =
                          IF ~Truthy(onFulfilled)
                          THEN Fn("resolve", c, "", Undef, 0, "")
                          ELSE [onFulfilled EXCEPT !.f = "wrapF", !.p = c],
                       !.entries[e].onRejected =
                          IF ~Truthy(onRejected)
                          THEN Fn("reject", c, "", Undef, 0, "")
                          ELSE [onRejected EXCEPT !.f = "wrapR", !.p = c],
                       !.parent_[c] = p]
              S4 == addCallbackEntry_(S3, p, e)
          IN [S4 EXCEPT !.got = c]

\* then, lines 631-650: an argument that is neither absent nor a function
\* is an error
then(S, p, opt_onFulfilled, opt_onRejected) ==
  IF opt_onFulfilled.f = "value" \/ opt_onRejected.f = "value"
  THEN Throw(S, Error(3))
  ELSE addChildPromise_(S, p,
         IF isFunction(opt_onFulfilled) THEN opt_onFulfilled ELSE NullFn,
         IF isFunction(opt_onRejected) THEN opt_onRejected ELSE NullFn)

thenCatch(S, p, onRejected) == addChildPromise_(S, p, NullFn, onRejected)

\* addChildPromise_ of ProgressPromise: the entry is a new object, the
\* child a new ProgressPromise
ProgressPromise_addChildPromise_(S, p, onFulfilled, onRejected) ==
  LET e  == S.numEntries + 1
      S1 == [S EXCEPT !.numEntries = e,
                      !.entries = Append(@, PlainEntry)]
      S2 == newPromise(S1)
      c  == S2.got
  IN IF Threw(S2) THEN S2
     ELSE LET S3 == [S2 EXCEPT
                       !.entries[e].child = c,
                       !.entries[e].onFulfilled =
                          IF ~Truthy(onFulfilled)
                          THEN Fn("resolve", c, "", Undef, 0, "")
                          ELSE [onFulfilled EXCEPT !.f = "wrapF", !.p = c],
                       !.entries[e].onRejected =
                          IF ~Truthy(onRejected)
                          THEN Fn("reject", c, "", Undef, 0, "")
                          ELSE [onRejected EXCEPT !.f = "progressWrapR",
                                                  !.p = c],
                       !.listeners_[c] = << >>,
                       !.progress_[c] = 0,
                       !.parent_[c] = p]
              S4 == addCallbackEntry_(S3, p, e)
          IN [S4 EXCEPT !.got = c]

\* then on a ProgressPromise: then calls this.addChildPromise_
ProgressPromise_then(S, p, opt_onFulfilled, opt_onRejected) ==
  IF opt_onFulfilled.f = "value" \/ opt_onRejected.f = "value"
  THEN Throw(S, Error(3))
  ELSE ProgressPromise_addChildPromise_(S, p,
         IF isFunction(opt_onFulfilled) THEN opt_onFulfilled ELSE NullFn,
         IF isFunction(opt_onRejected) THEN opt_onRejected ELSE NullFn)

\* cancel scheduling the cancellation whatever the state of the promise
cancelAnyState(S, p, err) ==
  asyncRun(S, [t |-> "cancel", p |-> p, v |-> err])

\* cancel(opt_message): the scheduled function builds the error err
cancel(S, p, err) ==
  IF S.state_[p] = PENDING
  THEN asyncRun(S, [t |-> "cancel", p |-> p, v |-> err])
  ELSE S

\* ------------------------------------------------- foreign thenables ----
\* What the then method of foreign thenable n does with the two callbacks
\* it is given, in order: "res"/"rej" calls one with v, "throw" throws v.
ThenSteps(n) ==
  CASE n = 1 -> << [op |-> "res", v |-> Val(1)], [op |-> "rej", v |-> Val(2)] >>
    [] n = 2 -> << [op |-> "rej", v |-> Val(2)], [op |-> "throw", v |-> Val(3)] >>
    [] n = 3 -> << [op |-> "throw", v |-> Val(3)] >>
    [] OTHER -> << >>

\* ------------------------------------------- the resolution procedure ---

\* a user handler is called: the call is logged and the handler does b;
\* the call of a value that is no function is a TypeError
UserCall(S, fn, arg) ==
  LET S1 == [S EXCEPT !.log = Append(@, [id |-> fn.id, s |-> fn.s,
                                          arg |-> arg])]
  IN CASE fn.b = "notfn" -> Throw(S, TypeError(3))
       [] fn.b = "ret"   -> [S1 EXCEPT !.ret = fn.v]
       [] fn.b = "throw" -> Throw(S1, fn.v)
       [] fn.b = "reg"   ->
            \* p.thenVoid(h) from inside the handler, h returning undefined
            LET id == Len(S1.regs) + 1
                h  == Fn("user", 0, "ret", Undef, id, "F")
                S2 == [S1 EXCEPT !.regs = Append(@,
                         [kind |-> "thenVoid", p |-> fn.v.n, child |-> 0,
                          onF |-> h, onR |-> NullFn, inside |-> TRUE,
                          at |-> S1.state_[fn.v.n], ret |-> 0])]
                S3 == thenVoid(S2, fn.v.n, h, NullFn)
            IN [S3 EXCEPT !.ret = Undef]

unblockAndFulfill_(S, p, value) ==
  IF S.state_[p] # BLOCKED THEN Throw(S, Error(1))
  ELSE Call("resolve_", [S EXCEPT !.state_[p] = PENDING], <<p, FULFILLED, value>>)

unblockAndReject_(S, p, reason) ==
  IF S.state_[p] # BLOCKED THEN Throw(S, Error(1))
  ELSE Call("resolve_", [S EXCEPT !.state_[p] = PENDING], <<p, REJECTED, reason>>)

\* the closure stored as onFulfilled by addChildPromise_ (lines 896-903)
wrapOnFulfilled(S, fn, value) ==
  LET S1 == Call("UserCall", S, <<fn, value>>)
      S2 == IF Threw(S1) THEN S1
            ELSE Call("resolve_", S1, <<fn.p, FULFILLED, S1.ret>>)
  IN IF S2.overflow \/ ~Threw(S2) THEN S2
     ELSE Call("resolve_", Caught(S2), <<fn.p, REJECTED, S2.exc>>)

\* the closure stored as onRejected by addChildPromise_ (lines 906-918)
wrapOnRejected(S, fn, reason) ==
  LET S1 == Call("UserCall", S, <<fn, reason>>)
      S2 == IF Threw(S1) THEN S1
            ELSE IF ~isDef(S1.ret)
            THEN IF ReadThrows(reason) THEN Throw(S1, TypeError(2))
                 ELSE IF IsCancellationError(reason)
                 THEN Call("resolve_", S1, <<fn.p, REJECTED, reason>>)
                 ELSE Call("resolve_", S1, <<fn.p, FULFILLED, S1.ret>>)
            ELSE Call("resolve_", S1, <<fn.p, FULFILLED, S1.ret>>)
  IN IF S2.overflow \/ ~Threw(S2) THEN S2
     ELSE Call("resolve_", Caught(S2), <<fn.p, REJECTED, S2.exc>>)

\* the closure ProgressPromise's addChildPromise_ stores as onRejected:
\* isDef is no name of that file, reading it throws inside the try
ProgressPromise_wrapOnRejected(S, fn, reason) ==
  LET S1 == Call("UserCall", S, <<fn, reason>>)
      S2 == IF Threw(S1) THEN S1 ELSE Throw(S1, ReferenceError)
  IN IF S2.overflow THEN S2
     ELSE Call("resolve_", Caught(S2), <<fn.p, REJECTED, S2.exc>>)

\* calling the first listener of the list only
callFirstListener_(S, p, progress, listeners) ==
  [S EXCEPT !.plog = @ \o [i \in 1..(IF listeners = << >> THEN 0 ELSE 1) |->
                             [p |-> p, l |-> listeners[i], v |-> progress,
                              u |-> Len(S.updates) + 1]]]

\* callProgressListeners_: each listener of the list is called with the
\* progress, in the list's order
callProgressListeners_(S, p, progress, listeners) ==
  [S EXCEPT !.plog = @ \o [i \in 1..Len(listeners) |->
                             [p |-> p, l |-> listeners[i], v |-> progress,
                              u |-> Len(S.updates) + 1]]]

\* callChildProgressListeners_: callbackEntries_ is the first entry of a
\* linked queue and has no length, so the guard is never passed
callChildProgressListeners_(S, p, progress) == S

\* setProgress_ storing whatever it is given
setProgressUnchecked_(S, p, progress, tick) ==
  LET S1 == IF progress.n = S.progress_[p] \/ progress.n = Unit THEN S
            ELSE callChildProgressListeners_(
                   callProgressListeners_(
                     [S EXCEPT !.progress_[p] = progress.n], p, progress,
                     S.listeners_[p]), p, progress)
  IN [S1 EXCEPT !.updates = Append(@,
        [p |-> p, v |-> progress.n, was |-> S.progress_[p],
         now |-> S1.progress_[p], ls |-> S.listeners_[p],
         exc |-> S1.exc, tick |-> tick])]

\* setProgress_; tick tells a run scheduled by the progress function from
\* a call made directly
setProgress_(S, p, progress, tick) ==
  LET S1 == IF progress.n > Unit \/ progress.n < 0
            THEN Throw(S, TypeError(4))
            ELSE IF progress.n < S.progress_[p] THEN Throw(S, Error(4))
            ELSE IF progress.n = S.progress_[p] \/ progress.n = Unit THEN S
            ELSE callChildProgressListeners_(
                   callProgressListeners_(
                     [S EXCEPT !.progress_[p] = progress.n], p, progress,
                     S.listeners_[p]), p, progress)
  IN [S1 EXCEPT !.updates = Append(@,
        [p |-> p, v |-> progress.n, was |-> S.progress_[p],
         now |-> S1.progress_[p], ls |-> S.listeners_[p],
         exc |-> S1.exc, tick |-> tick])]

getProgress(S, p) == S.progress_[p]

\* progress(listener)
progress(S, p, listener) == [S EXCEPT !.listeners_[p] = Append(@, listener)]

\* a progress function whose update overtakes what is already scheduled
progressFnFirst(S, p, percentage) ==
  [S EXCEPT !.workQueue = <<ProgressTask(p, percentage)>> \o @]

\* the progress function of the resolver of a ProgressPromise
progressFn(S, p, percentage) == asyncNextTick(S, ProgressTask(p, percentage))

\* values[index] = value on an array: the indices skipped are holes
setIndex(array, index, value) ==
  [j \in 1..(IF index > Len(array) THEN index ELSE Len(array)) |->
     IF j = index THEN value
     ELSE IF j <= Len(array) THEN array[j] ELSE Hole]

\* onFulfill of the resolver of all (lines 492-498) for the promise p
onFulfill(S, p, index, value) ==
  LET S1 == [S EXCEPT !.toFulfill[p] = @ - 1,
                      !.values[p] = setIndex(@, index, value)]
  IN IF S1.toFulfill[p] = 0
     THEN Call("resolve_", S1, <<p, FULFILLED, ArrayOf(p)>>)
     ELSE S1

\* onSettled of the resolver of allSettled (lines 537-550) for promise p
onSettled(S, p, index, fulfilled, result) ==
  LET S1 == [S EXCEPT !.toFulfill[p] = @ - 1,
                      !.values[p] = setIndex(@, index,
                                             ResultObject(fulfilled, result))]
  IN IF S1.toFulfill[p] = 0
     THEN Call("resolve_", S1, <<p, FULFILLED, ArrayOf(p)>>)
     ELSE S1

\* onReject of the resolver of firstFulfilled (lines 584-590) for promise p
firstOnReject(S, p, index, reason) ==
  LET S1 == [S EXCEPT !.toFulfill[p] = @ - 1,
                      !.values[p] = setIndex(@, index, reason)]
  IN IF S1.toFulfill[p] = 0
     THEN Call("resolve_", S1, <<p, REJECTED, ArrayOf(p)>>)
     ELSE S1

\* fn.call(context, arg) for a function value fn
CallFn(S, fn, arg) ==
  CASE fn.f = "nullFunction" -> S
    [] fn.f = "user"     -> Call("UserCall", S, <<fn, arg>>)
    [] fn.f = "wrapF"    -> wrapOnFulfilled(S, fn, arg)
    [] fn.f = "wrapR"    -> wrapOnRejected(S, fn, arg)
    [] fn.f = "progressWrapR" -> ProgressPromise_wrapOnRejected(S, fn, arg)
    [] fn.f = "resolve"  -> Call("resolve_", S, <<fn.p, FULFILLED, arg>>)
    [] fn.f = "reject"   -> Call("resolve_", S, <<fn.p, REJECTED, arg>>)
    [] fn.f = "unblockF" -> unblockAndFulfill_(S, fn.p, arg)
    [] fn.f = "unblockR" -> unblockAndReject_(S, fn.p, arg)
    [] fn.f = "onFulfill" -> onFulfill(S, fn.p, fn.id, arg)
    [] fn.f = "onReject" -> Call("resolve_", S, <<fn.p, REJECTED, arg>>)
    [] fn.f = "onSettled" -> onSettled(S, fn.p, fn.id, fn.s = "F", arg)
    [] fn.f = "firstOnFulfill" ->
         Call("resolve_", S, <<fn.p, FULFILLED, arg>>)
    [] fn.f = "firstOnReject" -> firstOnReject(S, fn.p, fn.id, arg)

\* then.call(thenable, resolve, reject): the foreign then runs its steps.
\* With latch, resolve and reject are the guarded pair of tryThen_ and
\* S.called is their flag; without, they are the callbacks themselves.
\* A value thrown by a callback passes through the foreign code.
callThen(S, steps, onFulfilled, onRejected, latch) ==
  IF steps = << >> THEN S
  ELSE LET st == Head(steps) IN
       IF st.op = "throw" THEN Throw(S, st.v)
       ELSE IF latch /\ S.called
       THEN Call("callThen", S, <<Tail(steps), onFulfilled, onRejected, latch>>)
       ELSE LET S1 == Call("CallFn", [S EXCEPT !.called = TRUE], <<
                             IF st.op = "res" THEN onFulfilled
                             ELSE onRejected, st.v>>)
            IN IF Threw(S1) THEN [S1 EXCEPT !.called = TRUE]
               ELSE Call("callThen", [S1 EXCEPT !.called = TRUE], <<Tail(steps),
                             onFulfilled, onRejected, latch>>)

tryThen_(S, steps, onFulfilled, onRejected) ==
  LET S1 == Call("callThen", [S EXCEPT !.called = FALSE], <<steps,
                     onFulfilled, onRejected, TRUE>>)
  IN IF S1.overflow \/ ~Threw(S1) THEN S1
     ELSE IF S1.called THEN Caught(S1)
     ELSE Call("CallFn", Caught(S1), <<onRejected, S1.exc>>)

\* maybeThen_: S.isThenable is the value returned
maybeThen_(S, value, onFulfilled, onRejected) ==
  IF value.k = "promise"
  THEN [thenVoid(S, value.n, onFulfilled, onRejected)
          EXCEPT !.isThenable = TRUE]
  ELSE IF value.k = "thenable" /\ value.m = 1
  THEN [Call("callThen", S, <<ThenSteps(value.n), onFulfilled, onRejected, FALSE>>)
          EXCEPT !.isThenable = TRUE]
  ELSE IF value.k = "thenable"
  THEN LET S1 == Call("tryThen_", S, <<ThenSteps(value.n), onFulfilled, onRejected>>)
           S2 == IF S1.overflow \/ ~Threw(S1) THEN S1
                 ELSE Call("CallFn", Caught(S1), <<onRejected, S1.exc>>)
       IN [S2 EXCEPT !.isThenable = TRUE]
  ELSE [S EXCEPT !.isThenable = FALSE]

\* resolve_ past its first check, registering every rejection for
\* unhandled-rejection tracking, the cancellation errors included
settleTracked_(S, p, state, x) ==
  LET self == (x = PRef(p))
      st   == IF self THEN REJECTED ELSE state
      x1   == IF self THEN TypeError(1) ELSE x
      S1   == Call("maybeThen_", [S EXCEPT !.state_[p] = BLOCKED], <<x1,
                         Fn("unblockF", p, "", Undef, 0, ""),
                         Fn("unblockR", p, "", Undef, 0, "")>>)
  IN IF Threw(S1) \/ S1.isThenable THEN S1
     ELSE LET S2 == scheduleCallbacks_(
                      [S1 EXCEPT !.result_[p] = x1, !.state_[p] = st,
                                 !.parent_[p] = 0], p)
          IN IF st # REJECTED THEN S2
             ELSE IF ReadThrows(x1) THEN Throw(S2, TypeError(2))
             ELSE addUnhandledRejection_(S2, p, x1)

\* resolve_ past its first check, lines 979-1000
settle_(S, p, state, x) ==
  LET self == (x = PRef(p))
      st   == IF self THEN REJECTED ELSE state
      x1   == IF self THEN TypeError(1) ELSE x
      S1   == Call("maybeThen_", [S EXCEPT !.state_[p] = BLOCKED], <<x1,
                         Fn("unblockF", p, "", Undef, 0, ""),
                         Fn("unblockR", p, "", Undef, 0, "")>>)
  IN IF Threw(S1) \/ S1.isThenable THEN S1
     ELSE LET S2 == scheduleCallbacks_(
                      [S1 EXCEPT !.result_[p] = x1, !.state_[p] = st,
                                 !.parent_[p] = 0], p)
          IN IF st # REJECTED THEN S2
             ELSE IF ReadThrows(x1) THEN Throw(S2, TypeError(2))
             ELSE IF ~IsCancellationError(x1)
             THEN addUnhandledRejection_(S2, p, x1)
             ELSE S2

\* resolve_ without its first check
resolveAgain_(S, p, state, x) == settle_(S, p, state, x)

resolve_(S, p, state, x) ==
  IF S.state_[p] # PENDING THEN S ELSE settle_(S, p, state, x)

\* ------------------------------------------------------------ the drain --
invokeCallback_(S, e, state, result) ==
  IF state = FULFILLED THEN Call("CallFn", S, <<S.entries[e].onFulfilled, result>>)
  ELSE IF ~IsNullFn(S.entries[e].onRejected)
  THEN Call("CallFn", S, <<S.entries[e].onRejected, result>>)
  ELSE S

\* executeCallback_ leaving the parent link of the child as it is
executeCallbackLinked_(S, p, e, state, result) ==
  LET ent == S.entries[e]
      S1  == IF state = REJECTED /\ ~IsNullFn(ent.onRejected) /\ ~ent.always
             THEN removeUnhandledRejection_(S, p) ELSE S
      S2  == IF ent.child # 0
             THEN invokeCallback_(S1, e, state, result)
             ELSE LET S3 == IF ent.always
                            THEN Call("CallFn", S1, <<ent.onFulfilled, NoArg>>)
                            ELSE invokeCallback_(S1, e, state, result)
                  IN IF S3.overflow \/ ~Threw(S3) THEN S3
                     ELSE handleRejection_(Caught(S3), S3.exc)
  IN IF Threw(S2) THEN S2 ELSE returnEntry_(S2, e)

executeCallback_(S, p, e, state, result) ==
  LET ent == S.entries[e]
      S1  == IF state = REJECTED /\ ~IsNullFn(ent.onRejected) /\ ~ent.always
             THEN removeUnhandledRejection_(S, p) ELSE S
      S2  == IF ent.child # 0
             THEN invokeCallback_([S1 EXCEPT !.parent_[ent.child] = 0],
                                  e, state, result)
             ELSE LET S3 == IF ent.always
                            THEN Call("CallFn", S1, <<ent.onFulfilled, NoArg>>)
                            ELSE invokeCallback_(S1, e, state, result)
                  IN IF S3.overflow \/ ~Threw(S3) THEN S3
                     ELSE handleRejection_(Caught(S3), S3.exc)
  IN IF Threw(S2) THEN S2 ELSE returnEntry_(S2, e)

executeCallbacks_(S, p) ==
  LET S1 == popEntry_(S, p) IN
  IF S1.got = 0 THEN [S1 EXCEPT !.executing_[p] = FALSE]
  ELSE LET S2 == Call("executeCallback_", S1, <<p, S1.got, S1.state_[p],
                                  S1.result_[p]>>)
       IN IF Threw(S2) THEN S2 ELSE Call("executeCallbacks_", S2, <<p>>)

\* ---------------------------------------------------------- cancellation --
\* the loop of cancelChild_ (lines 817-830) from entry e on
RECURSIVE scanChildren(_, _, _, _, _, _)
scanChildren(S, e, childPromise, childCount, childEntry, beforeChildEntry) ==
  IF e = 0
  THEN [childCount |-> childCount, childEntry |-> childEntry,
        beforeChildEntry |-> beforeChildEntry]
  ELSE LET ent == S.entries[e]
           cc  == IF ~ent.always THEN childCount + 1 ELSE childCount
           ce  == IF ~ent.always /\ ent.child = childPromise THEN e
                  ELSE childEntry
       IN IF ~ent.always /\ ce # 0 /\ cc > 1
          THEN [childCount |-> cc, childEntry |-> ce,
                beforeChildEntry |-> beforeChildEntry]
          ELSE scanChildren(S, ent.next, childPromise, cc, ce,
                            IF ce = 0 THEN e ELSE beforeChildEntry)

cancelInternal_(S, p, err) ==
  IF S.state_[p] # PENDING THEN S
  ELSE IF S.parent_[p] # 0
  THEN LET S1 == Call("cancelChild_", S, <<S.parent_[p], p, err>>) IN
       IF Threw(S1) THEN S1 ELSE [S1 EXCEPT !.parent_[p] = 0]
  ELSE Call("resolve_", S, <<p, REJECTED, err>>)

cancelChild_(S, p, childPromise, err) ==
  IF S.callbackEntries_[p] = 0 THEN S
  ELSE LET r == scanChildren(S, S.callbackEntries_[p], childPromise,
                             0, 0, 0)
       IN IF r.childEntry = 0 THEN S
          ELSE IF S.state_[p] = PENDING /\ r.childCount = 1
          THEN Call("cancelInternal_", S, <<p, err>>)
          ELSE LET S1 == IF r.beforeChildEntry # 0
                         THEN removeEntryAfter_(S, p, r.beforeChildEntry)
                         ELSE popEntry_(S, p)
               IN Call("executeCallback_", S1, <<p, r.childEntry, REJECTED, err>>)

\* ------------------------------------------------------------- actions ---
\* the promises made by user code with new, whose resolve and reject
\* functions user code holds: those no registration made as a child
IsChild(p) == \E i \in 1..Len(regs) : regs[i].child = p
Promises   == 1..numPromises

Init ==
  /\ state_ = [p \in Pid |-> PENDING]
  /\ result_ = [p \in Pid |-> Undef]
  /\ parent_ = [p \in Pid |-> 0]
  /\ callbackEntries_ = [p \in Pid |-> 0]
  /\ callbackEntriesTail_ = [p \in Pid |-> 0]
  /\ executing_ = [p \in Pid |-> FALSE]
  /\ hadUnhandledRejection_ = [p \in Pid |-> FALSE]
  /\ toFulfill = [p \in Pid |-> 0]
  /\ values = [p \in Pid |-> << >>]
  /\ numPromises = 0
  /\ entries = << >>
  /\ numEntries = 0
  /\ freelist_ = << >>
  /\ workQueue = << >>
  /\ reported = << >>
  /\ uncaught = << >>
  /\ log = << >>
  /\ regs = << >>
  /\ firstCall = [p \in Pid |-> [state |-> PENDING, x |-> Undef,
                                  at |-> PENDING]]
  /\ numCalls = [p \in Pid |-> 0]
  /\ numCancels = 0
  /\ cancels = << >>
  /\ checks = << >>
  /\ alls = << >>
  /\ resolved = << >>
  /\ progress_ = [p \in Pid |-> 0]
  /\ listeners_ = [p \in Pid |-> << >>]
  /\ plog = << >>
  /\ updates = << >>
  /\ issued = [p \in Pid |-> << >>]
  /\ last = [a |-> "init", p |-> 0]

\* the entries of p's queue, and those cancelChild_ counts as children
QueueOf(p)   == Queue(Cur, p)
NonAlways(p) == SelectSeq(QueueOf(p), LAMBDA e : ~entries[e].always)

\* p and its ancestors along the parent links, up to a promise without one
RECURSIVE Line(_)
Line(p) == IF parent_[p] = 0 THEN <<p>> ELSE <<p>> \o Line(parent_[p])

\* p is pending, and each of its ancestors is pending with exactly one
\* entry that is not an always entry, the one of its child on the line
SingleLine(p) ==
  /\ state_[p] = PENDING
  /\ \A k \in 2..Len(Line(p)) :
        LET a == Line(p)[k] IN
        /\ state_[a] = PENDING
        /\ Len(NonAlways(a)) = 1
        /\ entries[NonAlways(a)[1]].child = Line(p)[k - 1]

\* a step of user code or of the scheduler ends in heap S; a value still
\* thrown then has left the call stack uncaught.  A scheduled cancellation
\* is recorded with the state it found, a scheduled rejection check with
\* the flag it found and the number of registrations made before it.
Finish(S, a, p) ==
  /\ ~S.overflow
  /\ Commit(S)
  /\ uncaught' = IF Threw(S) THEN Append(uncaught, S.exc) ELSE uncaught
  /\ cancels' = IF a = "cancel"
                THEN Append(cancels,
                       [p |-> p, err |-> Head(workQueue).v,
                        at |-> state_[p],
                        line |-> IF SingleLine(p) THEN Line(p) ELSE << >>])
                ELSE cancels
  /\ checks' = IF a = "check"
               THEN Append(checks,
                      [p |-> p, x |-> Head(workQueue).v,
                       set |-> hadUnhandledRejection_[p],
                       regs |-> Len(regs)])
               ELSE checks
  /\ alls' = [k \in DOMAIN S.alls |->
                LET r   == S.alls[k]
                    now == {q \in Pid : /\ PRef(q) \in Range(r.promises)
                                        /\ state_[q] # REJECTED
                                        /\ S.state_[q] = REJECTED}
                    ful == {q \in Pid : /\ PRef(q) \in Range(r.promises)
                                        /\ state_[q] # FULFILLED
                                        /\ S.state_[q] = FULFILLED}
                IN IF k \in DOMAIN alls
                   THEN [r EXCEPT
                           !.first  = IF @ = {} THEN now ELSE @,
                           !.firstF = IF @ = {} THEN ful ELSE @,
                           !.firstS = IF @ = {} THEN now \cup ful ELSE @]
                   ELSE r]
  /\ last' = [a |-> a, p |-> p]

\* the resolve (state FULFILLED) or reject (state REJECTED) function of p,
\* lines 259-264, called by user code
callSettle(S, p, state, x) ==
  Call("resolve_", [S EXCEPT !.numCalls[p] = @ + 1,
                     !.firstCall[p] = IF S.numCalls[p] = 0
                                      THEN [state |-> state, x |-> x,
                                            at |-> IF x.k = "promise"
                                                   THEN S.state_[x.n]
                                                   ELSE PENDING]
                                      ELSE @], <<p, state, x>>)

\* the resolver of a constructor runs its steps
runResolver(S, p, steps) ==
  IF steps = << >> THEN S
  ELSE LET st == Head(steps) IN
       IF st.op = "throw" THEN Throw(S, st.v)
       ELSE IF st.op = "progress"
       THEN Call("runResolver",
                 [progressFn(S, p, st.v) EXCEPT
                    !.issued[p] = IF S.numCalls[p] = 0 THEN Append(@, st.v.n)
                                  ELSE @], <<p, Tail(steps)>>)
       ELSE LET S1 == Call("callSettle", S, <<p, IF st.op = "res" THEN FULFILLED
                                       ELSE REJECTED, st.v>>)
            IN IF Threw(S1) THEN S1 ELSE Call("runResolver", S1, <<p, Tail(steps)>>)

\* new CancellablePromise(resolver), lines 186-269
construct(S, steps) ==
  LET S1 == newPromise(S)
      S2 == IF Threw(S1) THEN S1 ELSE Call("runResolver", S1, <<S1.got, steps>>)
  IN IF S2.overflow \/ ~Threw(S2) THEN S2
     ELSE Call("callSettle", Caught(S2), <<S1.got, REJECTED, S2.exc>>)

\* new ProgressPromise(resolver), ProgressPromise.js lines 12-27
constructProgress(S, steps) ==
  LET S1 == Call("construct", S, <<steps>>) IN
  IF Threw(S1) THEN S1
  ELSE [S1 EXCEPT !.listeners_[S.numPromises + 1] = << >>,
                  !.progress_[S.numPromises + 1] = 0]

\* the static resolve making a new promise whatever its argument is
resolveWrapped(S, opt_value) ==
  LET S1 == newPromise(S) IN
  IF Threw(S1) THEN S1
  ELSE [Call("resolve_", S1, <<S1.got, FULFILLED, opt_value>>)
          EXCEPT !.got = S1.got]

\* the static resolve, lines 405-417: the promise returned is S.got
resolve(S, opt_value) ==
  IF opt_value.k = "promise" THEN [S EXCEPT !.got = opt_value.n]
  ELSE LET S1 == newPromise(S) IN
       IF Threw(S1) THEN S1
       ELSE [Call("resolve_", S1, <<S1.got, FULFILLED, opt_value>>)
               EXCEPT !.got = S1.got]

\* resolveThen_, lines 444-449
resolveThen_(S, value, onFulfilled, onRejected) ==
  LET S1 == Call("maybeThen_", S, <<value, onFulfilled, onRejected>>) IN
  IF Threw(S1) \/ S1.isThenable THEN S1
  ELSE asyncRun(S1, CallTask(onFulfilled, value))

\* the loop of the resolver of all (lines 504-507) from index i on
RECURSIVE resolveEach(_, _, _, _)
resolveEach(S, p, promises, i) ==
  IF i > Len(promises) THEN S
  ELSE LET S1 == resolveThen_(S, promises[i],
                              Fn("onFulfill", p, "", Undef, i, ""),
                              Fn("onReject", p, "", Undef, 0, ""))
       IN IF Threw(S1) THEN S1 ELSE resolveEach(S1, p, promises, i + 1)

\* all(promises), lines 482-509: the promise returned is S.got
all(S, promises) ==
  LET S1 == newPromise(S)
      p  == S1.got
      S2 == IF Threw(S1) THEN S1
            ELSE [S1 EXCEPT !.toFulfill[p] = Len(promises),
                            !.values[p] = << >>]
      S3 == IF Threw(S2) THEN S2
            ELSE IF S2.toFulfill[p] = 0
            THEN Call("resolve_", S2, <<p, FULFILLED, ArrayOf(p)>>)
            ELSE resolveEach(S2, p, promises, 1)
      S4 == IF S3.overflow \/ ~Threw(S3) THEN S3
            ELSE Call("resolve_", Caught(S3), <<p, REJECTED, S3.exc>>)
  IN [S4 EXCEPT !.got = p]

\* the two callbacks that the resolver of kind hands to resolveThen_ for
\* index i of its list
OnFulfilledOf(kind, p, i) ==
  CASE kind = "allSettled"     -> Fn("onSettled", p, "", Undef, i, "F")
    [] kind = "firstFulfilled" -> Fn("firstOnFulfill", p, "", Undef, 0, "")
    [] kind = "race"           -> Fn("resolve", p, "", Undef, 0, "")
OnRejectedOf(kind, p, i) ==
  CASE kind = "allSettled"     -> Fn("onSettled", p, "", Undef, i, "R")
    [] kind = "firstFulfilled" -> Fn("firstOnReject", p, "", Undef, i, "")
    [] kind = "race"           -> Fn("reject", p, "", Undef, 0, "")

\* the loops of the resolvers of allSettled (lines 552-557),
\* firstFulfilled (592-595) and race (465-468) from index i on
RECURSIVE resolveList(_, _, _, _, _)
resolveList(S, kind, p, promises, i) ==
  IF i > Len(promises) THEN S
  ELSE LET S1 == resolveThen_(S, promises[i], OnFulfilledOf(kind, p, i),
                              OnRejectedOf(kind, p, i))
       IN IF Threw(S1) THEN S1
          ELSE resolveList(S1, kind, p, promises, i + 1)

\* allSettled(promises), lines 527-559: the promise returned is S.got
allSettled(S, promises) ==
  LET S1 == newPromise(S)
      p  == S1.got
      S2 == IF Threw(S1) THEN S1
            ELSE [S1 EXCEPT !.toFulfill[p] = Len(promises),
                            !.values[p] = << >>]
      S3 == IF Threw(S2) THEN S2
            ELSE IF S2.toFulfill[p] = 0
            THEN Call("resolve_", S2, <<p, FULFILLED, ArrayOf(p)>>)
            ELSE resolveList(S2, "allSettled", p, promises, 1)
      S4 == IF S3.overflow \/ ~Threw(S3) THEN S3
            ELSE Call("resolve_", Caught(S3), <<p, REJECTED, S3.exc>>)
  IN [S4 EXCEPT !.got = p]

\* firstFulfilled(promises), lines 570-597: the promise returned is S.got
firstFulfilled(S, promises) ==
  LET S1 == newPromise(S)
      p  == S1.got
      S2 == IF Threw(S1) THEN S1
            ELSE [S1 EXCEPT !.toFulfill[p] = Len(promises),
                            !.values[p] = << >>]
      S3 == IF Threw(S2) THEN S2
            ELSE IF S2.toFulfill[p] = 0
            THEN Call("resolve_", S2, <<p, FULFILLED, Undef>>)
            ELSE resolveList(S2, "firstFulfilled", p, promises, 1)
      S4 == IF S3.overflow \/ ~Threw(S3) THEN S3
            ELSE Call("resolve_", Caught(S3), <<p, REJECTED, S3.exc>>)
  IN [S4 EXCEPT !.got = p]

\* race(promises), lines 460-470: the promise returned is S.got
race(S, promises) ==
  LET S1 == newPromise(S)
      p  == S1.got
      S2 == IF Threw(S1) THEN S1
            ELSE IF Len(promises) = 0
            THEN Call("resolve_", S1, <<p, FULFILLED, Undef>>)
            ELSE S1
      S3 == IF Threw(S2) THEN S2
            ELSE resolveList(S2, "race", p, promises, 1)
      S4 == IF S3.overflow \/ ~Threw(S3) THEN S3
            ELSE Call("resolve_", Caught(S3), <<p, REJECTED, S3.exc>>)
  IN [S4 EXCEPT !.got = p]

\* the method f called with heap S and arguments a
Call(f, S, a) ==
  CASE f = "resolve_"          -> resolve_(S, a[1], a[2], a[3])
    [] f = "maybeThen_"        -> maybeThen_(S, a[1], a[2], a[3])
    [] f = "callThen"          -> callThen(S, a[1], a[2], a[3], a[4])
    [] f = "CallFn"            -> CallFn(S, a[1], a[2])
    [] f = "executeCallback_"  -> executeCallback_(S, a[1], a[2], a[3], a[4])
    [] f = "executeCallbacks_" -> executeCallbacks_(S, a[1])
    [] f = "cancelInternal_"   -> cancelInternal_(S, a[1], a[2])
    [] f = "cancelChild_"      -> cancelChild_(S, a[1], a[2], a[3])
    [] f = "UserCall"          -> UserCall(S, a[1], a[2])
    [] f = "tryThen_"          -> tryThen_(S, a[1], a[2], a[3])
    [] f = "callSettle"        -> callSettle(S, a[1], a[2], a[3])
    [] f = "runResolver"       -> runResolver(S, a[1], a[2])
    [] f = "construct"         -> construct(S, a[1])
    [] f = "all"               -> all(S, a[1])
    [] f = "allSettled"        -> allSettled(S, a[1])
    [] f = "firstFulfilled"    -> firstFulfilled(S, a[1])
    [] f = "race"              -> race(S, a[1])
    [] f = "resolve"           -> resolve(S, a[1])

Construct(steps) ==
  Finish(Call("construct", Cur, <<steps>>), "new", numPromises + 1)

\* new ProgressPromise(resolver)
ConstructProgress(steps) ==
  Finish(constructProgress(Cur, steps), "newProgress", numPromises + 1)

\* promise.progress(listener)
Progress(p, listener) ==
  /\ p \in Promises
  /\ Finish(progress(Cur, p, listener), "progress()", p)

\* promise.setProgress_(progress) called directly
SetProgress(p, percentage) ==
  /\ p \in Promises
  /\ Finish(setProgress_(Cur, p, percentage, FALSE), "setProgress_", p)

\* promise.then(onF, onR) on a ProgressPromise
ProgressThen(p, onF, onR) ==
  /\ p \in Promises
  /\ LET id == Len(regs) + 1
         S1 == ProgressPromise_then(Cur, p, Named(onF, id, "F"),
                                    Named(onR, id, "R"))
         S2 == [S1 EXCEPT !.regs = Append(@,
                  [kind |-> "progressThen", p |-> p, child |-> S1.got,
                   onF |-> onF, onR |-> onR, inside |-> FALSE,
                   at |-> state_[p], ret |-> S1.got])]
     IN Finish(S2, "then", p)

Settle(p, state, x) ==
  /\ p \in Promises /\ ~IsChild(p)
  /\ Finish(Call("callSettle", Cur, <<p, state, x>>), "settle", p)

Then(p, onF, onR) ==
  /\ p \in Promises
  /\ LET id == Len(regs) + 1
         S1 == then(Cur, p, Named(onF, id, "F"), Named(onR, id, "R"))
         S2 == [S1 EXCEPT !.regs = Append(@,
                  [kind |-> "then", p |-> p, child |-> S1.got,
                   onF |-> onF, onR |-> onR, inside |-> FALSE,
                   at |-> state_[p], ret |-> S1.got])]
     IN Finish(S2, "then", p)

ThenCatch(p, onR) ==
  /\ p \in Promises
  /\ LET id == Len(regs) + 1
         S1 == thenCatch(Cur, p, Named(onR, id, "R"))
         S2 == [S1 EXCEPT !.regs = Append(@,
                  [kind |-> "thenCatch", p |-> p, child |-> S1.got,
                   onF |-> NullFn, onR |-> onR, inside |-> FALSE,
                   at |-> state_[p], ret |-> S1.got])]
     IN Finish(S2, "thenCatch", p)

ThenVoid(p, onF, onR) ==
  /\ p \in Promises
  /\ LET id == Len(regs) + 1
         S1 == thenVoid(Cur, p, Named(onF, id, "F"), Named(onR, id, "R"))
         S2 == [S1 EXCEPT !.regs = Append(@,
                  [kind |-> "thenVoid", p |-> p, child |-> 0,
                   onF |-> onF, onR |-> onR, inside |-> FALSE,
                   at |-> state_[p], ret |-> 0])]
     IN Finish(S2, "thenVoid", p)

ThenAlways(p, h) ==
  /\ p \in Promises
  /\ LET id == Len(regs) + 1
         S1 == thenAlways(Cur, p, Named(h, id, "A"))
         S2 == [S1 EXCEPT !.regs = Append(@,
                  [kind |-> "thenAlways", p |-> p, child |-> 0,
                   onF |-> h, onR |-> h, inside |-> FALSE,
                   at |-> state_[p], ret |-> S1.got])]
     IN Finish(S2, "thenAlways", p)

\* CancellablePromise.resolve(x) called by user code
Resolve(x) ==
  /\ x.k = "promise" => x.n \in Promises
  /\ LET S1 == Call("resolve", Cur, <<x>>)
         S2 == [S1 EXCEPT !.resolved = Append(@,
                  [x |-> x, ret |-> S1.got, before |-> numPromises,
                   after |-> S1.numPromises])]
     IN Finish(S2, "resolve", S1.got)

\* all, allSettled, firstFulfilled or race (kind) called by user code
\* with the list promises
Combine(kind, promises) ==
  LET S1 == Call(kind, Cur, <<promises>>)
      S2 == [S1 EXCEPT !.alls = Append(@,
               [kind |-> kind, p |-> S1.got, promises |-> promises,
                at |-> [i \in DOMAIN promises |->
                          IF promises[i].k = "promise"
                          THEN state_[promises[i].n] ELSE PENDING],
                first |-> {}, firstF |-> {}, firstS |-> {}])]
  IN Finish(S2, kind, numPromises + 1)

All(promises)            == Combine("all", promises)
AllSettled(promises)     == Combine("allSettled", promises)
FirstFulfilled(promises) == Combine("firstFulfilled", promises)
Race(promises)           == Combine("race", promises)

Cancel(p, msg) ==
  /\ p \in Promises
  /\ LET S1 == cancel([Cur EXCEPT !.numCancels = @ + 1], p,
                      CancellationError(numCancels + 1, msg))
     IN Finish(S1, "callCancel", p)

\* the scheduler runs the oldest scheduled function to completion
runTask(S, t) ==
  CASE t.t = "exec"   -> Call("executeCallbacks_", S, <<t.p>>)
    [] t.t = "cancel" -> Call("cancelInternal_", S, <<t.p, t.v>>)
    [] t.t = "call"   -> Call("CallFn", S, <<t.fn, t.v>>)
    [] t.t = "progress" -> setProgress_(S, t.p, t.v, TRUE)
    [] t.t = "check"  -> IF S.hadUnhandledRejection_[t.p]
                         THEN handleRejection_(S, t.v) ELSE S

RunTask ==
  /\ workQueue # << >>
  /\ Finish(runTask([Cur EXCEPT !.workQueue = Tail(@)], Head(workQueue)),
            Head(workQueue).t, Head(workQueue).p)

\* ------------------------------------------------- what user code does --
Msgs == {0, 1}

\* Settlement: every way a resolve or reject function gets called
ResolverSteps ==
  { << >>,
    << [op |-> "res", v |-> Val(1)] >>,
    << [op |-> "rej", v |-> Val(1)] >>,
    << [op |-> "rej", v |-> Undef] >>,
    << [op |-> "res", v |-> Val(1)], [op |-> "rej", v |-> Val(2)] >>,
    << [op |-> "rej", v |-> Val(1)], [op |-> "res", v |-> Val(2)] >>,
    << [op |-> "throw", v |-> Val(3)] >>,
    << [op |-> "res", v |-> Val(1)], [op |-> "throw", v |-> Val(3)] >> }
SettleValues ==
  {Val(1), Undef} \cup {PRef(q) : q \in Promises}
    \cup {Thenable(n, 0) : n \in 1..3} \cup {Thenable(1, 1)}
Plain == UserFn("ret", Val(4))

\* what user code has done so far
TotalCalls == LET RECURSIVE Sum(_)
                  Sum(p) == IF p = 0 THEN 0 ELSE numCalls[p] + Sum(p - 1)
              IN Sum(MaxPromises)
UserRegs   == Cardinality({i \in 1..Len(regs) : ~regs[i].inside})
Roots      == {p \in Promises : ~IsChild(p)}
NumRoots   == Cardinality(Roots)

\* ----------------------------------------------------------------------
\* Settlement: promises made with new, settled from inside the resolver,
\* from later calls and through adopted promises and thenables.
\* ----------------------------------------------------------------------
SettleRoots == 2
SettleRegs  == 1
SettleCalls == 3

NextSettle ==
  \/ /\ NumRoots < SettleRoots
     /\ \E steps \in ResolverSteps :
          /\ TotalCalls + Len(steps) <= SettleCalls
          /\ Construct(steps)
  \/ /\ TotalCalls < SettleCalls
     /\ \E p \in Pid, state \in {FULFILLED, REJECTED}, x \in SettleValues :
          Settle(p, state, x)
  \/ /\ UserRegs < SettleRegs
     /\ \E p \in Pid, h \in {Plain, NullFn} : Then(p, h, h)
  \/ /\ UserRegs < SettleRegs
     /\ \E p \in Pid : ThenVoid(p, Plain, Plain)
  \/ /\ UserRegs < SettleRegs
     /\ \E p \in Pid : ThenAlways(p, Plain)
  \/ RunTask

SpecSettle == Init /\ [][NextSettle]_vars

\* the calls of handlers registered on promise p, in the order made
CallsOn(p) == SelectSeq(log, LAMBDA c : regs[c.id].p = p)

\* what the first call [state, x] made on a promise settles it with:
\* its own state and value, the outcome of the promise x names, or what the
\* then method of thenable x does first
Outcome(p, call) ==
  CASE call.x = PRef(p) ->
         [call EXCEPT !.state = REJECTED, !.x = TypeError(1)]
    [] call.x.k = "promise" /\ call.x # PRef(p) ->
         [call EXCEPT !.state = state_[call.x.n], !.x = result_[call.x.n]]
    [] call.x.k = "thenable" ->
         LET st == Head(ThenSteps(call.x.n)) IN
         [call EXCEPT !.state = IF st.op = "res" THEN FULFILLED ELSE REJECTED,
                      !.x = st.v]
    [] OTHER -> call

\* a handler was called on the side and with the argument that the
\* settled state and result of its promise select
Delivered(c) ==
  LET p == regs[c.id].p IN
  /\ Settled(state_[p])
  /\ c.s = "F" => state_[p] = FULFILLED /\ c.arg = result_[p]
  /\ c.s = "R" => state_[p] = REJECTED /\ c.arg = result_[p]
  /\ c.s = "A" => c.arg = NoArg

\* the heap, without the record of what user code did
heap == <<state_, result_, parent_, callbackEntries_, callbackEntriesTail_,
          executing_, hadUnhandledRejection_, numPromises, entries,
          numEntries, freelist_, workQueue, reported>>

\* no handler has been called twice, every handler was called with its
\* promise's outcome, and a settled promise has the outcome that the first
\* call made on it determines
FirstCallWins ==
  /\ \A i, j \in 1..Len(log) : log[i].id = log[j].id => i = j
  /\ \A i \in 1..Len(log) : Delivered(log[i])
  /\ \A p \in Roots : Settled(state_[p]) =>
         /\ numCalls[p] > 0
         /\ state_[p] = Outcome(p, firstCall[p]).state
         /\ result_[p] = Outcome(p, firstCall[p]).x

\* C1: exactly-once settlement.  Once a promise is FULFILLED or REJECTED
\* its state and result never change; a resolve or reject call on a promise
\* that is no longer PENDING changes nothing; no handler is called twice;
\* every handler is called with its promise's outcome, and that outcome is
\* the one the first call made on the promise determines.
C1_ExactlyOnce ==
  [][ /\ \A p \in Pid : Settled(state_[p]) =>
             state_'[p] = state_[p] /\ result_'[p] = result_[p]
      /\ \A p \in Pid : last'.a = "settle" /\ last'.p = p
             /\ state_[p] # PENDING => heap' = heap /\ log' = log
      /\ FirstCallWins' ]_vars

\* C1 witness: a promise that was resolved and then rejected has called a
\* fulfilment handler
C1_Witness ==
  \E p \in Roots :
     /\ numCalls[p] >= 2 /\ firstCall[p].state = FULFILLED
     /\ state_[p] = FULFILLED
     /\ \E i \in 1..Len(log) : regs[log[i].id].p = p /\ log[i].s = "F"

\* C2: deferred delivery.  A call of then, thenVoid or thenAlways calls no
\* handler, whatever the state of the promise; handlers are called only in
\* steps of the scheduler.
C2_Deferred ==
  [][ /\ last'.a \in {"then", "thenVoid", "thenAlways"} => log' = log
      /\ log' # log => last'.a \in {"exec", "cancel"} ]_vars

\* C2 witness: a handler registered by then or thenVoid on a promise that
\* was settled already has been called
C2_Witness ==
  \E i \in 1..Len(log) :
     /\ regs[log[i].id].kind \in {"then", "thenVoid"}
     /\ Settled(regs[log[i].id].at)

\* P's first resolve or reject call named another promise Q, which was
\* not settled then
Adopts(p, q) ==
  /\ p \in Roots /\ q \in Promises /\ q # p
  /\ numCalls[p] > 0 /\ firstCall[p].x = PRef(q)
  /\ ~Settled(firstCall[p].at)

\* C7: a promise P resolved with another promise Q that is pending is
\* blocked while Q is not settled and no handler of P is called; P settles only with Q's state
\* and result, whatever later calls are made on P; and once Q has settled
\* and the scheduler has run everything scheduled, P has settled.
C7_Blocked ==
  \A p, q \in Pid : Adopts(p, q) =>
     /\ ~Settled(state_[q]) => state_[p] = BLOCKED /\ CallsOn(p) = << >>
     /\ Settled(state_[p]) =>
           state_[p] = state_[q] /\ result_[p] = result_[q]
     /\ Settled(state_[q]) /\ workQueue = << >> => Settled(state_[p])

\* C7 witness: P was resolved with Q, called again, and settled as Q did
C7_Witness ==
  \E p, q \in Pid :
     /\ Adopts(p, q) /\ numCalls[p] >= 2
     /\ state_[q] = REJECTED /\ state_[p] = REJECTED
     /\ CallsOn(p) # << >>

\* ----------------------------------------------------------------------
\* Chaining: handlers that return, throw and register, on chains made by
\* then, with thenVoid and thenAlways callbacks beside them.
\* ----------------------------------------------------------------------
ChainRoots == 1
ChainRegs  == 2

ChainSteps  == { << >>, << [op |-> "rej", v |-> Undef] >> }
ChainValues == {Val(1), Undef}

\* what a handler given to then does: return a value, nothing, a promise
\* or a thenable; throw a value, undefined or a thenable; or register a
\* further callback on the promise p it is registered on
ChainHandlers(p) ==
  {UserFn("ret", Val(4)), UserFn("ret", Undef), UserFn("ret", Thenable(2, 0)),
   UserFn("throw", Val(5)), UserFn("throw", Undef),
   UserFn("throw", Thenable(1, 0)), UserFn("reg", PRef(p))}
    \cup {UserFn("ret", PRef(q)) : q \in Promises \cup {numPromises + 1}}

NextChain ==
  \/ /\ NumRoots < ChainRoots
     /\ \E steps \in ChainSteps : Construct(steps)
  \/ \E p \in Pid, state \in {FULFILLED, REJECTED}, x \in ChainValues :
        numCalls[p] = 0 /\ Settle(p, state, x)
  \/ /\ UserRegs < ChainRegs
     /\ \E p \in Pid : \/ Then(p, NullFn, NullFn)
                        \/ \E h \in ChainHandlers(p) :
                              \/ Then(p, h, h)
                              \/ Then(p, h, NullFn)
                              \/ Then(p, NullFn, h)
  \/ /\ UserRegs < ChainRegs
     /\ \E p \in Pid : \E h \in {Plain, UserFn("reg", PRef(p))} :
          ThenVoid(p, h, h)
  \/ /\ UserRegs < ChainRegs
     /\ \E p \in Pid : \E h \in {Plain, UserFn("reg", PRef(p))} :
          ThenAlways(p, h)
  \/ RunTask

SpecChain == Init /\ [][NextChain]_vars

\* the handler of registration r that a promise in state st selects
Selected(r, st) ==
  IF r.kind = "thenAlways" \/ st = FULFILLED THEN r.onF ELSE r.onR

\* registration i had a handler called, and the record of that call
Called(i) == \E k \in 1..Len(log) : log[k].id = i
CallOf(i) == log[CHOOSE k \in 1..Len(log) : log[k].id = i]

\* the handler that call c of registration r ran, and what it returned
HandlerOf(r, c) == IF c.s = "R" THEN r.onR ELSE r.onF
Returned(h)     == IF h.b = "reg" THEN Undef ELSE h.v

\* the registrations made by then
Thens == {i \in 1..Len(regs) : regs[i].kind = "then"}

\* C3: FIFO order.  The handlers registered on one promise are called in
\* the order of their registration, those registered from inside a handler
\* included; and when the drain of a promise has run, every registration
\* made on it so far for which its state selects a handler has had that
\* handler called.
C3_Fifo ==
  \A p \in Pid :
     /\ \A i, j \in 1..Len(CallsOn(p)) :
           i < j => CallsOn(p)[i].id < CallsOn(p)[j].id
     /\ last.a = "exec" /\ last.p = p =>
           \A i \in 1..Len(regs) :
              regs[i].p = p /\ ~IsNullFn(Selected(regs[i], state_[p]))
                 => Called(i)

\* child promise c is resolved with v: fulfilled with v when v is no
\* thenable, settled as v is or does when v is a promise or a thenable
ResolvedWith(c, v) ==
  IF v.k = "promise" /\ v # PRef(c)
  THEN /\ Settled(state_[c]) =>
            state_[c] = state_[v.n] /\ result_[c] = result_[v.n]
       /\ Settled(state_[v.n]) /\ workQueue = << >> => Settled(state_[c])
  ELSE LET o == Outcome(c, [state |-> FULFILLED, x |-> v, at |-> PENDING])
       IN state_[c] = o.state /\ result_[c] = o.x

\* C4: chaining.  When the handler that the parent's outcome selects has
\* returned v, the child made by then is resolved with v, whatever the
\* parent's result, unless the handler was given a cancellation error and
\* returned undefined.
C4_Chaining ==
  \A i \in Thens : Called(i) =>
     LET c == CallOf(i)
         h == HandlerOf(regs[i], c)
     IN h.b \in {"ret", "reg"}
          /\ ~(c.s = "R" /\ IsCancellationError(c.arg) /\ ~isDef(Returned(h)))
        => ResolvedWith(regs[i].child, Returned(h))

\* C5: pass-through.  A child made by then with no handler for the
\* parent's outcome settles only with the parent's state and result, and
\* has settled once the parent has and everything scheduled has run; no
\* handler is called on the side the outcome does not select.
C5_PassThrough ==
  /\ \A i \in Thens :
        LET p == regs[i].p
            c == regs[i].child
        IN Settled(state_[p]) /\ IsNullFn(Selected(regs[i], state_[p])) =>
             /\ Settled(state_[c]) =>
                   state_[c] = state_[p] /\ result_[c] = result_[p]
             /\ workQueue = << >> => Settled(state_[c])
  /\ \A k \in 1..Len(log) : Delivered(log[k])

\* C6: a throwing handler.  When a handler registered with then has thrown
\* v, the child is REJECTED with v; the parent keeps its outcome and the
\* other callbacks of the parent are called with that outcome; and the
\* rejection handlers registered on the child are called with v, all of
\* them once everything scheduled has run.
C6_Throws ==
  \A i \in Thens : Called(i) /\ HandlerOf(regs[i], CallOf(i)).b = "throw" =>
     LET v == HandlerOf(regs[i], CallOf(i)).v
         p == regs[i].p
         c == regs[i].child
     IN /\ state_[c] = REJECTED /\ result_[c] = v
        /\ \A k \in 1..Len(log) : regs[log[k].id].p = p => Delivered(log[k])
        /\ \A j \in 1..Len(regs) :
              regs[j].p = c /\ regs[j].kind # "thenAlways"
                 /\ ~IsNullFn(regs[j].onR) =>
                 /\ Called(j) => CallOf(j).s = "R" /\ CallOf(j).arg = v
                 /\ workQueue = << >> => Called(j)

\* ----------------------------------------------------------------------
\* Cancellation: cancel() on chains made by then, with thenVoid and
\* thenAlways callbacks beside the children, racing with settlement.
\* ----------------------------------------------------------------------
CancelRoots == 1
CancelRegs  == 2
CancelCalls == 1

\* what a handler does with the value or the cancellation error it gets
CancelHandlers ==
  {UserFn("ret", Val(4)), UserFn("ret", Undef), UserFn("throw", Val(5)),
   UserFn("throw", Undef)}

NextCancel ==
  \/ /\ NumRoots < CancelRoots
     /\ Construct(<< >>)
  \/ \E p \in Pid, state \in {FULFILLED, REJECTED}, x \in ChainValues :
        numCalls[p] = 0 /\ Settle(p, state, x)
  \/ /\ UserRegs < CancelRegs
     /\ \E p \in Pid : \/ Then(p, NullFn, NullFn)
                        \/ \E h \in CancelHandlers :
                              Then(p, h, h) \/ Then(p, NullFn, h)
  \/ /\ UserRegs < CancelRegs
     /\ \E p \in Pid : ThenVoid(p, Plain, Plain)
  \/ /\ UserRegs < CancelRegs
     /\ \E p \in Pid : ThenAlways(p, Plain)
  \/ /\ numCancels < CancelCalls
     /\ \E p \in Pid, msg \in Msgs : Cancel(p, msg)
  \/ RunTask

SpecCancel == Init /\ [][NextCancel]_vars

\* C8: single-child cancellation propagates upward.  When the scheduled
\* cancellation of a pending promise has run and each of its pending
\* ancestors had exactly one entry that was not an always entry, the root
\* of that line is REJECTED with the cancellation error, and once
\* everything scheduled has run the cancelled promise and every ancestor
\* on the line are REJECTED with that same error.
C8_Upward ==
  \A k \in 1..Len(cancels) :
     LET c == cancels[k] IN
     c.line # << >> =>
        /\ state_[c.line[Len(c.line)]] = REJECTED
        /\ result_[c.line[Len(c.line)]] = c.err
        /\ workQueue = << >> =>
              \A q \in Range(c.line) :
                 state_[q] = REJECTED /\ result_[q] = c.err

\* the scheduled cancellation of child c is about to run, c is pending and
\* its parent is pending with two or more entries that are not always
\* entries
CancelsOneOf(c) ==
  /\ workQueue # << >>
  /\ Head(workQueue).t = "cancel" /\ Head(workQueue).p = c
  /\ state_[c] = PENDING /\ parent_[c] # 0
  /\ state_[parent_[c]] = PENDING
  /\ Len(NonAlways(parent_[c])) >= 2
  /\ \E e \in Range(NonAlways(parent_[c])) : entries[e].child = c

\* the calls made in this step of the handlers registered on promise p
NewCallsOn(p) ==
  SelectSeq(SubSeq(log', Len(log) + 1, Len(log')),
            LAMBDA c : regs'[c.id].p = p)

\* every registration on a settled promise for which its state selects a
\* handler has had a handler called
AllCalled ==
  \A i \in 1..Len(regs) :
     Settled(state_[regs[i].p])
        /\ ~IsNullFn(Selected(regs[i], state_[regs[i].p])) => Called(i)

\* C9: multi-child cancellation.  When the scheduled cancellation of one
\* of two or more children of a pending parent runs, that child alone is
\* REJECTED with the cancellation error and its entry leaves the parent's
\* queue; the parent stays PENDING and the other promises keep their
\* state, the other entries their order.  When the parent's queue is
\* drained the handlers are called with the parent's outcome, no handler
\* is ever called twice, and once everything scheduled has run every
\* handler the parent's outcome selects has been called.
C9_OneOfMany ==
  [][ /\ \A c, a \in Pid :
           CancelsOneOf(c) /\ a = parent_[c] /\ last'.a = "cancel" =>
           /\ state_'[c] = REJECTED /\ result_'[c] = Head(workQueue).v
           /\ state_'[a] = PENDING
           /\ \A q \in Pid \ {c} : state_'[q] = state_[q]
           /\ QueueOf(a)' =
                 SelectSeq(QueueOf(a), LAMBDA e : entries[e].child # c)
      /\ \A p \in Pid : last'.a = "exec" /\ last'.p = p =>
           \A k \in 1..Len(NewCallsOn(p)) :
              /\ NewCallsOn(p)[k].arg \in {result_[p], NoArg}
              /\ NewCallsOn(p)[k].s = "F" => state_[p] = FULFILLED
              /\ NewCallsOn(p)[k].s = "R" => state_[p] = REJECTED
      /\ \A i, j \in 1..Len(log') : log'[i].id = log'[j].id => i = j
      /\ (workQueue = << >> => AllCalled)' ]_vars

\* C10: cancel never takes effect on a settled promise.  A cancel() call
\* on a promise that is FULFILLED or REJECTED changes nothing and
\* schedules nothing; a scheduled cancellation that finds its promise
\* settled only leaves the scheduler's queue; neither calls a handler or
\* the reporter; and the handlers of a settled promise are called with its
\* result, on the side its state selects.
C10_SettledStays ==
  [][ /\ \A p \in Pid : Settled(state_[p]) =>
             state_'[p] = state_[p] /\ result_'[p] = result_[p]
      /\ \A p \in Pid : last'.a = "callCancel" /\ last'.p = p
             /\ Settled(state_[p]) => heap' = heap /\ log' = log
      /\ \A p \in Pid : last'.a = "cancel" /\ last'.p = p
             /\ Settled(state_[p]) =>
             /\ <<state_, result_, parent_, callbackEntries_,
                   callbackEntriesTail_, executing_, hadUnhandledRejection_,
                   entries, freelist_, reported, log>>'
                = <<state_, result_, parent_, callbackEntries_,
                    callbackEntriesTail_, executing_, hadUnhandledRejection_,
                    entries, freelist_, reported, log>>
             /\ workQueue' = Tail(workQueue)
      /\ \A p \in Pid : last'.a = "exec" /\ last'.p = p =>
           \A k \in 1..Len(NewCallsOn(p)) :
              /\ NewCallsOn(p)[k].arg \in {result_[p], NoArg}
              /\ NewCallsOn(p)[k].s = "F" => state_[p] = FULFILLED
              /\ NewCallsOn(p)[k].s = "R" => state_[p] = REJECTED ]_vars

\* C10 witness: the scheduled cancellation of a promise found it settled,
\* and a handler of that promise was then called with its result
C10_Witness ==
  \E k \in 1..Len(cancels) :
     /\ Settled(cancels[k].at)
     /\ \E i \in 1..Len(log) :
           /\ regs[log[i].id].p = cancels[k].p
           /\ log[i].arg = result_[cancels[k].p]

\* the registration made by then that created child promise c
RegOf(c) == CHOOSE i \in 1..Len(regs) : regs[i].child = c

\* the child made by registration i of then has received x as its
\* rejection reason: its rejection handler was called with x, or, having
\* none, it is REJECTED with x
ReceivedReason(i, x) ==
  IF IsNullFn(regs[i].onR)
  THEN state_[regs[i].child] = REJECTED /\ result_[regs[i].child] = x
  ELSE Called(i) /\ CallOf(i).s = "R" /\ CallOf(i).arg = x

\* every scheduled cancellation that found its promise pending and without
\* parent has rejected it with the error of that cancellation and, once
\* everything scheduled has run, each child then has made of the promise
\* has received that error
RootCancelled ==
  \A k \in 1..Len(cancels) :
     LET c == cancels[k] IN
     c.line = <<c.p>> =>
        /\ state_[c.p] = REJECTED /\ result_[c.p] = c.err
        /\ workQueue = << >> =>
              \A i \in Thens : regs[i].p = c.p => ReceivedReason(i, c.err)

\* C11: cancelling a root.  cancel(m) on a pending promise schedules a
\* cancellation whose error is cancellation-marked and has message m; when
\* it runs and finds the promise pending and without parent, the promise
\* is REJECTED with that error, and every child registered on the promise
\* receives that same error as its rejection reason.
C11_RootCancel ==
  [][ /\ \A p \in Pid, m \in Msgs :
           Cancel(p, m) /\ state_[p] = PENDING =>
              /\ Len(workQueue') = Len(workQueue) + 1
              /\ LET t == workQueue'[Len(workQueue')] IN
                 /\ t.t = "cancel" /\ t.p = p
                 /\ IsCancellationError(t.v) /\ t.v.m = m
      /\ RootCancelled' ]_vars

\* ----------------------------------------------------------------------
\* Repeated cancellation: a chain made by then on one pending root, with
\* thenAlways callbacks beside the children, and up to two cancel() calls
\* anywhere on it.
\* ----------------------------------------------------------------------
RecancelRegs  == 2
RecancelCalls == 2

RecancelHandlers ==
  {NullFn, UserFn("ret", Undef), UserFn("ret", Val(4)),
   UserFn("throw", Val(5))}

NextRecancel ==
  \/ /\ NumRoots < 1
     /\ Construct(<< >>)
  \/ /\ UserRegs < RecancelRegs
     /\ \E p \in Pid, h \in RecancelHandlers : Then(p, NullFn, h)
  \/ /\ UserRegs < RecancelRegs
     /\ \E p \in Pid : ThenAlways(p, Plain)
  \/ /\ numCancels < RecancelCalls
     /\ \E p \in Pid, msg \in Msgs : Cancel(p, msg)
  \/ RunTask

SpecRecancel == Init /\ [][NextRecancel]_vars

\* promise d is promise c or was made by then below it
RECURSIVE Under(_, _)
Under(c, d) ==
  \/ d = c
  \/ IsChild(d) /\ Under(c, regs[RegOf(d)].p)

\* C12: cancellation through handlers.  When the rejection handler of a
\* registration made by then has been called with a cancellation error
\* and returned undefined, the child is REJECTED with that same error;
\* when it returned a defined value v, the child is FULFILLED with v, and
\* no promise below the child has that error as its result or has a
\* handler called with it.
C12_Through ==
  \A i \in Thens :
     Called(i) /\ CallOf(i).s = "R" /\ IsCancellationError(CallOf(i).arg)
        /\ regs[i].onR.b = "ret" =>
     LET err == CallOf(i).arg
         v   == regs[i].onR.v
         c   == regs[i].child
     IN IF ~isDef(v)
        THEN state_[c] = REJECTED /\ result_[c] = err
        ELSE /\ state_[c] = FULFILLED /\ result_[c] = v
             /\ \A d \in Promises : Under(c, d) => result_[d] # err
             /\ \A j \in 1..Len(regs) :
                   Under(c, regs[j].p) /\ Called(j) => CallOf(j).arg # err

\* ----------------------------------------------------------------------
\* Reporting: rejections with and without handlers, thenAlways and
\* thenVoid callbacks that return or throw.  The scheduler runs what is
\* scheduled in one batch: once a scheduled function has run, user code
\* runs only inside handlers until nothing is left scheduled.
\* ----------------------------------------------------------------------
ReportRoots == 1
ReportRegs  == 3

\* a batch of scheduled functions is under way
Batch == workQueue # << >> /\ last.a \in {"exec", "cancel", "check"}

ReportSteps    == { << >>, << [op |-> "rej", v |-> Val(1)] >>,
                    << [op |-> "rej", v |-> Undef] >> }
ReportHandlers == {Plain, UserFn("throw", Val(5))}
AlwaysHandlers == {Plain, UserFn("throw", Val(6)), UserFn("throw", Undef)}

NextReport ==
  \/ /\ ~Batch /\ NumRoots < ReportRoots
     /\ \E steps \in ReportSteps : Construct(steps)
  \/ /\ ~Batch
     /\ \E p \in Pid, state \in {FULFILLED, REJECTED}, x \in ChainValues :
          numCalls[p] = 0 /\ Settle(p, state, x)
  \/ /\ ~Batch /\ UserRegs < ReportRegs
     /\ \E p \in Pid : \/ Then(p, NullFn, NullFn)
                        \/ \E h \in ReportHandlers : Then(p, NullFn, h)
                        \/ Then(p, UserFn("reg", PRef(p)), NullFn)
  \/ /\ ~Batch /\ UserRegs < ReportRegs
     /\ \E p \in Pid : ThenVoid(p, Plain, NullFn) \/ ThenVoid(p, Plain, Plain)
  \/ /\ ~Batch /\ UserRegs < ReportRegs
     /\ \E p \in Pid, h \in AlwaysHandlers : ThenAlways(p, h)
  \/ RunTask

SpecReport == Init /\ [][NextReport]_vars

\* registration r gives its promise a rejection handler; registration r
\* gives it none and makes no child
HasRej(r) == r.kind \in {"then", "thenVoid"} /\ ~IsNullFn(r.onR)
Bare(r)   == r.kind = "thenAlways" \/ (r.kind = "thenVoid" /\ IsNullFn(r.onR))

\* the scheduled rejection checks of promise p that have run
ChecksOf(p) == {k \in 1..Len(checks) : checks[k].p = p}

\* every promise REJECTED with a reason that is no cancellation error has
\* at most one check, made with its reason; when only thenAlways callbacks
\* and thenVoid callbacks without rejection handler are registered on it,
\* the check finds the flag set, and it has run once nothing is left
\* scheduled; when a rejection handler was registered on it before the
\* check ran, the check finds the flag cleared
ReportedOnce ==
  \A p \in Promises :
     state_[p] = REJECTED /\ ~IsCancellationError(result_[p]) =>
        /\ Cardinality(ChecksOf(p)) <= 1
        /\ \A k \in ChecksOf(p) : checks[k].x = result_[p]
        /\ (\A i \in 1..Len(regs) : regs[i].p = p => Bare(regs[i])) =>
              /\ \A k \in ChecksOf(p) : checks[k].set
              /\ workQueue = << >> => ChecksOf(p) # {}
        /\ \A k \in ChecksOf(p) :
              (\E i \in 1..checks[k].regs : regs[i].p = p /\ HasRej(regs[i]))
                 => ~checks[k].set

\* C13: unhandled-rejection reporting with delay 0.  A promise rejected
\* with a reason that is no cancellation error and with no rejection
\* handler attached has the reporter called exactly once with that reason:
\* its one check runs, finds the flag set and hands the reason to the
\* reporter.  When a rejection handler was attached before the check ran,
\* the check finds the flag cleared and the reporter is not called.
C13_Reported ==
  [][ /\ last'.a = "check" =>
            reported' = IF hadUnhandledRejection_[last'.p]
                        THEN Append(reported, Head(workQueue).v)
                        ELSE reported
      /\ ReportedOnce' ]_vars

\* C14: cancellation errors are not tracked.  A promise REJECTED with a
\* cancellation error never has its unhandled-rejection flag set and never
\* has a rejection check scheduled or run, whatever is registered on it;
\* no scheduled check carries a cancellation error and the reporter is
\* never called with one.
C14_NotTracked ==
  /\ \A p \in Promises :
        state_[p] = REJECTED /\ IsCancellationError(result_[p]) =>
           /\ ~hadUnhandledRejection_[p]
           /\ ChecksOf(p) = {}
           /\ \A k \in 1..Len(workQueue) :
                 ~(workQueue[k].t = "check" /\ workQueue[k].p = p)
  /\ \A k \in 1..Len(workQueue) :
        workQueue[k].t = "check" => ~IsCancellationError(workQueue[k].v)
  /\ \A k \in 1..Len(reported) : ~IsCancellationError(reported[k])

\* C14 witness: two promises are REJECTED with cancellation errors, one
\* with a callback registered on it and one with none, a rejection that is
\* no cancellation has been reported, and nothing is left scheduled
C14_Witness ==
  /\ workQueue = << >>
  /\ reported # << >>
  /\ \E p, q \in Promises :
        /\ state_[p] = REJECTED /\ IsCancellationError(result_[p])
        /\ state_[q] = REJECTED /\ IsCancellationError(result_[q])
        /\ \E i \in 1..Len(regs) : regs[i].p = p
        /\ \A i \in 1..Len(regs) : regs[i].p # q

\* the registrations made by thenAlways
Always == {i \in 1..Len(regs) : regs[i].kind = "thenAlways"}

\* C15: thenAlways.  A thenAlways call returns the promise it was called
\* on and makes no promise.  Its handler is called with no argument, only
\* once the promise is FULFILLED or REJECTED, never twice, and has been
\* called once the promise has settled and nothing is left scheduled; the
\* callbacks of one promise are called in the order of registration.
C15_Always ==
  [][ /\ last'.a = "thenAlways" => numPromises' = numPromises
      /\ ( /\ \A i \in Always :
                /\ regs[i].ret = regs[i].p /\ regs[i].child = 0
                /\ \A k \in 1..Len(log) : log[k].id = i =>
                      /\ log[k].arg = NoArg
                      /\ Settled(state_[regs[i].p])
                      /\ \A j \in 1..Len(log) : log[j].id = i => j = k
                /\ Settled(state_[regs[i].p]) /\ workQueue = << >>
                      => Called(i)
           /\ \A p \in Pid : \A i, j \in 1..Len(CallsOn(p)) :
                 i < j => CallsOn(p)[i].id < CallsOn(p)[j].id )' ]_vars

\* the calls of thenAlways handlers that threw x, and how often the
\* reporter was called with x
ThrownByAlways(x) ==
  {k \in 1..Len(log) : /\ log[k].id \in Always
                       /\ regs[log[k].id].onF.b = "throw"
                       /\ regs[log[k].id].onF.v = x}
ReportsOf(x) == {k \in 1..Len(reported) : reported[k] = x}

\* C16: a throwing thenAlways handler.  What a thenAlways handler throws
\* is handed to the reporter, once for each such call, and becomes the
\* result of no promise; the step in which it is thrown leaves the state
\* and result of the promise as they were; and every callback registered
\* on the same promise after the thrower is called with the promise's
\* outcome, all of them once nothing is left scheduled.
C16_AlwaysThrows ==
  [][ /\ \A p \in Pid : last'.a = "exec" /\ last'.p = p =>
             state_'[p] = state_[p] /\ result_'[p] = result_[p]
      /\ ( /\ \A x \in {Val(6), Undef} :
                Cardinality(ReportsOf(x)) = Cardinality(ThrownByAlways(x))
           /\ \A q \in Promises : result_[q] # Val(6)
           /\ \A i \in Always : Called(i) /\ regs[i].onF.b = "throw" =>
                 \A j \in 1..Len(regs) :
                    j > i /\ regs[j].p = regs[i].p
                       /\ ~IsNullFn(Selected(regs[j], state_[regs[i].p])) =>
                       /\ Called(j) => Delivered(CallOf(j))
                       /\ workQueue = << >> => Called(j) )' ]_vars

\* promise p has callbacks registered, all of them thenAlways callbacks or
\* thenVoid callbacks without rejection handler
OnlyBare(p) ==
  /\ \E i \in 1..Len(regs) : regs[i].p = p
  /\ \A i \in 1..Len(regs) : regs[i].p = p => Bare(regs[i])

\* C17: thenAlways does not handle a rejection.  A drain of a promise
\* whose only callbacks are thenAlways callbacks and thenVoid callbacks
\* without rejection handler leaves its unhandled-rejection flag as it
\* was; and when such a promise is REJECTED with a reason that is no
\* cancellation error and nothing is left scheduled, its check has run,
\* has found the flag set and has handed the reason to the reporter.
C17_AlwaysUnhandled ==
  [][ /\ \A p \in Pid : last'.a = "exec" /\ last'.p = p /\ OnlyBare(p)' =>
             hadUnhandledRejection_'[p] = hadUnhandledRejection_[p]
      /\ ( \A p \in Promises :
              OnlyBare(p) /\ state_[p] = REJECTED
                 /\ ~IsCancellationError(result_[p]) /\ workQueue = << >> =>
                 /\ \E k \in ChecksOf(p) : checks[k].set
                 /\ ReportsOf(result_[p]) # {} )' ]_vars

\* C18: thenAlways entries let a cancellation through.  When the
\* scheduled cancellation of a pending child has run, and its pending
\* parent had thenAlways entries and, besides them, the entry of that child
\* alone, the parent is cancelled with the same error: being a root it is
\* REJECTED with it, otherwise the cancellation has gone on to the root of
\* the line.  Once nothing is left scheduled the parent has settled and
\* every thenAlways handler registered on it has been called.
C18_AlwaysLetsThrough ==
  \A k \in 1..Len(cancels) :
     LET c == cancels[k] IN
     Len(c.line) >= 2 /\ (\E i \in Always : regs[i].p = c.line[2]) =>
        /\ state_[c.line[Len(c.line)]] = REJECTED
        /\ result_[c.line[Len(c.line)]] = c.err
        /\ workQueue = << >> =>
              /\ Settled(state_[c.line[2]])
              /\ \A i \in Always : regs[i].p = c.line[2] => Called(i)

\* ----------------------------------------------------------------------
\* all: promises made with new and settled by later calls, lists of them
\* and of plain values handed to all, callbacks registered on the inputs
\* and on the promise all returns.
\* ----------------------------------------------------------------------
AllRoots == 2     \* promises made with new
AllLen   == 2     \* longest list handed to all
AllTimes == 1     \* calls of all
AllCalls == 2     \* calls of resolve and reject functions
AllRegs  == 1     \* registrations

\* the promises all returned, and those user code made with new
AllPromises == {alls[k].p : k \in 1..Len(alls)}
Made        == {p \in Promises : ~IsChild(p) /\ p \notin AllPromises}

\* what a list may hold: promises, and the plain value 0
AllInputs == {PRef(q) : q \in Made} \cup {Val(0)}
AllLists  == UNION {[1..n -> AllInputs] : n \in 0..AllLen}
AllValues == {Val(1), Val(2)}
AllHandlers == {Plain, UserFn("throw", Undef)}

NextAll ==
  \/ /\ Cardinality(Made) < AllRoots
     /\ Construct(<< >>)
  \/ /\ TotalCalls < AllCalls
     /\ \E p \in Made, state \in {FULFILLED, REJECTED}, x \in AllValues :
          Settle(p, state, x)
  \/ /\ Len(alls) < AllTimes
     /\ \E promises \in AllLists : All(promises)
  \/ /\ UserRegs < AllRegs
     /\ \E p \in Pid, h \in AllHandlers : Then(p, h, h)
  \/ RunTask

SpecAll == Init /\ [][NextAll]_vars

\* the scheduled drain of promise q is still waiting in the scheduler
DrainWaits(q) ==
  \E j \in 1..Len(workQueue) : workQueue[j].t = "exec" /\ workQueue[j].p = q

\* promise q, settled by the first call user code made of its resolve or
\* reject function, holds what that call gave it
SettledAsCalled(q) ==
  state_[q] = firstCall[q].state /\ result_[q] = firstCall[q].x

\* C19: all short-circuits.  For a list whose promises were all pending
\* when all was called: once the first of them to be rejected has had its
\* scheduled drain run, the promise all returned is REJECTED with the
\* reason of that input, whatever the state of the other inputs, and stays
\* so whatever the other inputs do later; every input that user code has
\* settled holds what it was settled with.
C19_ShortCircuit ==
  \A k \in 1..Len(alls) :
     LET r == alls[k] IN
     (\A i \in DOMAIN r.at : r.at[i] = PENDING) =>
        /\ \A q \in r.first :
              ~DrainWaits(q) =>
                 state_[r.p] = REJECTED /\ result_[r.p] = result_[q]
        /\ \A q \in Made :
              PRef(q) \in Range(r.promises) /\ numCalls[q] > 0 =>
                 SettledAsCalled(q)

\* what the list handed to all holds at index i once it has fulfilled
Fulfilment(x) == IF x.k = "promise" THEN result_[x.n] ELSE x
HasFulfilled(x) == x.k = "promise" => state_[x.n] = FULFILLED

\* C20: all of inputs that all fulfil.  The promise all returned is
\* FULFILLED only when every promise of the list is, and then with the
\* array of the fulfilment values in the order of the list, a value that
\* is no thenable standing for itself; once every promise of the list is
\* fulfilled and nothing is left scheduled it is FULFILLED; for the empty
\* list it is FULFILLED with an empty array.
C20_AllFulfilled ==
  \A k \in 1..Len(alls) :
     LET r == alls[k] IN
     /\ state_[r.p] = FULFILLED =>
           /\ \A i \in DOMAIN r.promises : HasFulfilled(r.promises[i])
           /\ result_[r.p] = ArrayOf(r.p)
           /\ values[r.p] = [i \in DOMAIN r.promises |->
                               Fulfilment(r.promises[i])]
     /\ (\A i \in DOMAIN r.promises : HasFulfilled(r.promises[i]))
           /\ workQueue = << >> => state_[r.p] = FULFILLED
     /\ r.promises = << >> => state_[r.p] = FULFILLED /\ values[r.p] = << >>

\* ----------------------------------------------------------------------
\* allSettled: as for all, with the list handed to allSettled.
\* ----------------------------------------------------------------------
NextAllSettled ==
  \/ /\ Cardinality(Made) < AllRoots
     /\ Construct(<< >>)
  \/ /\ TotalCalls < AllCalls
     /\ \E p \in Made, state \in {FULFILLED, REJECTED}, x \in AllValues :
          Settle(p, state, x)
  \/ /\ Len(alls) < AllTimes
     /\ \E promises \in AllLists : AllSettled(promises)
  \/ /\ UserRegs < AllRegs
     /\ \E p \in Pid, h \in AllHandlers : Then(p, h, h)
  \/ RunTask

SpecAllSettled == Init /\ [][NextAllSettled]_vars

\* the result object that allSettled builds for element x of its list
ResultOf(x) ==
  IF x.k # "promise" THEN ResultObject(TRUE, x)
  ELSE ResultObject(state_[x.n] = FULFILLED, result_[x.n])
HasSettled(x) == x.k = "promise" => Settled(state_[x.n])

\* C21: allSettled.  The promise allSettled returned is never REJECTED;
\* it is FULFILLED only when every promise of the list has settled, and
\* then with the array of one result object per element in the order of
\* the list, fulfilled true with the value for a fulfilled promise and for
\* a value that is no thenable, fulfilled false with the reason for a
\* rejected promise; once every promise of the list has settled and nothing
\* is left scheduled it is FULFILLED; for the empty list it is FULFILLED
\* with an empty array.
C21_AllSettled ==
  \A k \in 1..Len(alls) :
     LET r == alls[k] IN
     r.kind = "allSettled" =>
        /\ state_[r.p] # REJECTED
        /\ state_[r.p] = FULFILLED =>
              /\ \A i \in DOMAIN r.promises : HasSettled(r.promises[i])
              /\ result_[r.p] = ArrayOf(r.p)
              /\ values[r.p] = [i \in DOMAIN r.promises |->
                                  ResultOf(r.promises[i])]
        /\ (\A i \in DOMAIN r.promises : HasSettled(r.promises[i]))
              /\ workQueue = << >> => state_[r.p] = FULFILLED
        /\ r.promises = << >> =>
              state_[r.p] = FULFILLED /\ values[r.p] = << >>

\* ----------------------------------------------------------------------
\* firstFulfilled: as for all, with the list handed to firstFulfilled.
\* ----------------------------------------------------------------------
NextFirstFulfilled ==
  \/ /\ Cardinality(Made) < AllRoots
     /\ Construct(<< >>)
  \/ /\ TotalCalls < AllCalls
     /\ \E p \in Made, state \in {FULFILLED, REJECTED}, x \in AllValues :
          Settle(p, state, x)
  \/ /\ Len(alls) < AllTimes
     /\ \E promises \in AllLists : FirstFulfilled(promises)
  \/ /\ UserRegs < AllRegs
     /\ \E p \in Pid, h \in AllHandlers : Then(p, h, h)
  \/ RunTask

SpecFirstFulfilled == Init /\ [][NextFirstFulfilled]_vars

\* the indices of list promises that hold no promise, in order
PlainAt(promises) ==
  SelectSeq([i \in DOMAIN promises |-> i],
            LAMBDA i : promises[i].k # "promise")
\* a scheduled call for the promise p of a combinator is still waiting
CallWaits(p) ==
  \E j \in 1..Len(workQueue) : workQueue[j].t = "call" /\ workQueue[j].p = p
HasRejected(x) == x.k = "promise" /\ state_[x.n] = REJECTED

\* C22: firstFulfilled.  For a list whose promises were all pending when
\* firstFulfilled was called, the promise returned is FULFILLED with the
\* value of the element that fulfilled first: the first value that is no
\* thenable once the call scheduled for it has run, and with no such
\* value the first promise to be fulfilled once its scheduled drain has
\* run, whatever was rejected before.  For any list it is REJECTED only
\* when every element is a rejected promise, and then with the array of the
\* reasons in the order of the list; once every element is a rejected
\* promise and nothing is left scheduled it is REJECTED; for the empty
\* list it is FULFILLED with undefined.
C22_FirstFulfilled ==
  \A k \in 1..Len(alls) :
     LET r == alls[k] IN
     r.kind = "firstFulfilled" =>
        /\ (\A i \in DOMAIN r.at : r.at[i] = PENDING) =>
              IF PlainAt(r.promises) # << >>
              THEN ~CallWaits(r.p) =>
                      /\ state_[r.p] = FULFILLED
                      /\ result_[r.p] = r.promises[PlainAt(r.promises)[1]]
              ELSE \A q \in r.firstF :
                      ~DrainWaits(q) =>
                         /\ state_[r.p] = FULFILLED
                         /\ result_[r.p] = result_[q]
        /\ state_[r.p] = REJECTED =>
              /\ \A i \in DOMAIN r.promises : HasRejected(r.promises[i])
              /\ result_[r.p] = ArrayOf(r.p)
              /\ values[r.p] = [i \in DOMAIN r.promises |->
                                  result_[r.promises[i].n]]
        /\ r.promises # << >>
              /\ (\A i \in DOMAIN r.promises : HasRejected(r.promises[i]))
              /\ workQueue = << >> => state_[r.p] = REJECTED
        /\ r.promises = << >> =>
              state_[r.p] = FULFILLED /\ result_[r.p] = Undef

\* ----------------------------------------------------------------------
\* race: as for all, with the list handed to race.
\* ----------------------------------------------------------------------
NextRace ==
  \/ /\ Cardinality(Made) < AllRoots
     /\ Construct(<< >>)
  \/ /\ TotalCalls < AllCalls
     /\ \E p \in Made, state \in {FULFILLED, REJECTED}, x \in AllValues :
          Settle(p, state, x)
  \/ /\ Len(alls) < AllTimes
     /\ \E promises \in AllLists : Race(promises)
  \/ /\ UserRegs < AllRegs
     /\ \E p \in Pid, h \in AllHandlers : Then(p, h, h)
  \/ RunTask

SpecRace == Init /\ [][NextRace]_vars

\* C23: race.  For a list whose promises were all pending when race was
\* called, the promise returned has the state and the result of the
\* element that settled first: FULFILLED with the first value that is no
\* thenable once the call scheduled for it has run, and with no such
\* value the state and result of the first promise to settle once its
\* scheduled drain has run; it stays so whatever the other elements do.
C23_Race ==
  \A k \in 1..Len(alls) :
     LET r == alls[k] IN
     r.kind = "race" /\ (\A i \in DOMAIN r.at : r.at[i] = PENDING) =>
        IF PlainAt(r.promises) # << >>
        THEN ~CallWaits(r.p) =>
                /\ state_[r.p] = FULFILLED
                /\ result_[r.p] = r.promises[PlainAt(r.promises)[1]]
        ELSE \A q \in r.firstS :
                ~DrainWaits(q) =>
                   state_[r.p] = state_[q] /\ result_[r.p] = result_[q]

\* ----------------------------------------------------------------------
\* The static resolve: called with plain values, foreign thenables,
\* promises made with new in any state, children made by then and the
\* promises it returned itself.
\* ----------------------------------------------------------------------
ResolveRoots == 1
ResolveTimes == 3
ResolveCalls == 1
ResolveRegs  == 1

ResolveValues ==
  {Val(1), Undef, Null, Thenable(1, 0), Thenable(3, 0)}
    \cup {PRef(q) : q \in Promises}

\* the promises the static resolve constructed
Wrapped == {resolved[k].ret : k \in {j \in 1..Len(resolved) :
                                        resolved[j].after > resolved[j].before}}

NextResolve ==
  \/ /\ Cardinality(Roots \ Wrapped) < ResolveRoots
     /\ \E steps \in {<< >>, << [op |-> "rej", v |-> Val(2)] >>} :
          /\ TotalCalls + Len(steps) <= ResolveCalls
          /\ Construct(steps)
  \/ /\ TotalCalls < ResolveCalls
     /\ \E p \in Roots \ Wrapped : Settle(p, FULFILLED, Val(1))
  \/ /\ Len(resolved) < ResolveTimes
     /\ \E x \in ResolveValues : Resolve(x)
  \/ /\ UserRegs < ResolveRegs
     /\ \E p \in Pid : Then(p, Plain, NullFn)
  \/ RunTask

SpecResolve == Init /\ [][NextResolve]_vars

\* what a promise resolved with x, no promise, settles as at once
SettlesAs(x) ==
  CASE x = Thenable(1, 0) -> [state |-> FULFILLED, result |-> Val(1)]
    [] x = Thenable(3, 0) -> [state |-> REJECTED, result |-> Val(3)]
    [] OTHER              -> [state |-> FULFILLED, result |-> x]

\* C24: the static resolve.  Called with a promise of this system, in any
\* state, it returns that promise and constructs none, so that called
\* with a promise it returned it returns it again; called with anything
\* else it constructs one promise, returns it, and that promise is
\* resolved with the argument.
C24_StaticResolve ==
  \A k \in 1..Len(resolved) :
     LET r == resolved[k] IN
     IF r.x.k = "promise"
     THEN r.ret = r.x.n /\ r.after = r.before
     ELSE /\ r.after = r.before + 1
          /\ r.ret = r.after
          /\ state_[r.ret] = SettlesAs(r.x).state
          /\ result_[r.ret] = SettlesAs(r.x).result

\* resolve(resolve(x)) for an x that is no promise, and resolve of a
\* promise in each state
C24_Witness ==
  /\ \E j, k \in 1..Len(resolved) :
        /\ j < k
        /\ resolved[j].x.k # "promise"
        /\ resolved[k].x = PRef(resolved[j].ret)
        /\ resolved[k].ret = resolved[j].ret
  /\ \E k \in 1..Len(resolved) :
        resolved[k].x.k = "promise" /\ state_[resolved[k].x.n] # FULFILLED

\* ----------------------------------------------------------------------
\* Self-resolution: a promise made with new is resolved or rejected with
\* itself, a handler given to then returns the child that then made.
\* ----------------------------------------------------------------------
SelfRegs  == 3
SelfCalls == 1

\* what a handler given to then does: return the child that this call of
\* then makes, return a value, throw undefined
SelfHandlers ==
  {UserFn("ret", PRef(numPromises + 1)), Plain, UserFn("throw", Undef)}

NextSelf ==
  \/ /\ NumRoots < 1
     /\ Construct(<< >>)
  \/ /\ TotalCalls < SelfCalls
     /\ \E p \in Pid, state \in {FULFILLED, REJECTED} :
          \/ Settle(p, state, PRef(p))
          \/ Settle(p, state, Val(1))
  \/ /\ UserRegs < SelfRegs
     /\ \E p \in Pid, h \in SelfHandlers : Then(p, h, h)
  \/ RunTask

SpecSelf == Init /\ [][NextSelf]_vars

\* promise c was resolved with itself: by the first call user code made
\* of its resolve or reject function, or by the handler whose child it is
SelfResolved(c) ==
  \/ numCalls[c] > 0 /\ firstCall[c].x = PRef(c)
  \/ \E i \in Thens :
        /\ regs[i].child = c
        /\ Called(i)
        /\ LET h == HandlerOf(regs[i], CallOf(i)) IN
           h.b = "ret" /\ h.v = PRef(c)

\* C25: self-resolution.  A promise resolved with itself is REJECTED with
\* the TypeError 'Promise cannot resolve to itself', and once nothing is
\* left scheduled every rejection handler registered on it has been
\* called with that error.
C25_SelfResolution ==
  \A c \in Promises :
     SelfResolved(c) =>
        /\ state_[c] = REJECTED
        /\ result_[c] = TypeError(1)
        /\ workQueue = << >> =>
              \A j \in 1..Len(regs) :
                 regs[j].p = c /\ ~IsNullFn(regs[j].onR) =>
                    /\ Called(j)
                    /\ CallOf(j).s = "R"
                    /\ CallOf(j).arg = TypeError(1)

\* ----------------------------------------------------------------------
\* thenCatch and then(null, h): called on pending, fulfilled and rejected
\* promises with handlers, with nothing and with values that are no
\* function.
\* ----------------------------------------------------------------------
CatchRegs  == 2
CatchCalls == 1

CatchArgs ==
  {NullFn, Plain, UserFn("ret", Undef), UserFn("throw", Val(5)),
   NotFn(Val(5)), NotFn(Val(0))}

NextCatch ==
  \/ /\ NumRoots < 1
     /\ Construct(<< >>)
  \/ /\ TotalCalls < CatchCalls
     /\ \E p \in Pid, state \in {FULFILLED, REJECTED} :
          Settle(p, state, Val(1))
  \/ /\ UserRegs < CatchRegs
     /\ \E p \in Pid, h \in CatchArgs : Then(p, NullFn, h)
  \/ /\ UserRegs < CatchRegs
     /\ \E p \in Pid, h \in CatchArgs : ThenCatch(p, h)
  \/ RunTask

SpecCatch == Init /\ [][NextCatch]_vars

\* C26: thenCatch(h) is then(null, h).  In every state, for every promise
\* and every argument h, a function or not, the two calls end alike: both
\* throw the same error or both return a child, and they leave the same
\* heap, so that the two children settle alike whatever happens later.
C26_CatchIsThen ==
  \A p \in Promises, h \in CatchArgs :
     LET id == Len(regs) + 1 IN
     thenCatch(Cur, p, Named(h, id, "R")) =
        then(Cur, p, NullFn, Named(h, id, "R"))

\* ------------------------------------------------- ProgressPromise --------
ProgressRoots     == 1   \* ProgressPromises constructed by user code
ProgressRegs      == 1   \* then calls
ProgressDirect    == 1   \* direct calls of setProgress_
ProgressListeners == 2   \* progress(listener) calls per promise
\* the values given as progress: below 0, 0, between, 1 and above 1
ProgressArgs      == -1..(Unit + 1)
Listeners         == {1, 2}
Prog(n)           == [op |-> "progress", v |-> Val(n)]
Res               == [op |-> "res", v |-> Val(1)]
\* what the resolver of a ProgressPromise does
ProgressResolvers ==
  {<<Prog(a), Prog(b), Res>> : a \in {1, 2}, b \in {1, 2, Unit}}
    \cup {<<Prog(a), Res, Prog(b)>> : a \in {2}, b \in {1, 3}}
    \cup {<<Prog(a)>> : a \in ProgressArgs}
ProgressHandlers == {Plain, UserFn("throw", Val(5))}
DirectUpdates == Cardinality({k \in 1..Len(updates) : ~updates[k].tick})

NextProgress ==
  \/ \E steps \in ProgressResolvers :
       NumRoots < ProgressRoots /\ ConstructProgress(steps)
  \/ \E p \in Roots, l \in Listeners :
       Len(listeners_[p]) < ProgressListeners /\ Progress(p, l)
  \/ \E p \in Roots, n \in ProgressArgs :
       DirectUpdates < ProgressDirect /\ SetProgress(p, Val(n))
  \/ \E p \in Roots, h \in ProgressHandlers :
       UserRegs < ProgressRegs /\ ProgressThen(p, h, NullFn)
  \/ RunTask

SpecProgress == Init /\ [][NextProgress]_vars

\* the listener invocations that update k made, in order
CallsOf(k) == SelectSeq(plog, LAMBDA c : c.u = k)
\* the progress stored for p after its last update
LastStored(p) ==
  LET ks == {k \in 1..Len(updates) : updates[k].p = p} IN
  IF ks = {} THEN 0
  ELSE updates[CHOOSE k \in ks : \A j \in ks : j <= k].now

\* C27: progress is bounded and monotonic.  An update with a value below 0
\* or above 1 throws the TypeError, an update in range but below the stored
\* progress throws the Error, and both leave the stored progress as it was
\* and call no listener; no update lowers the stored progress, which is
\* what the updates left and lies between 0 and 1.  The updates are the
\* ordered numbers of ProgressArgs.
C27_ProgressBounded ==
  /\ \A p \in Promises :
       /\ getProgress(Cur, p) = LastStored(p)
       /\ 0 <= getProgress(Cur, p) /\ getProgress(Cur, p) <= Unit
  /\ \A k \in 1..Len(updates) :
       LET u == updates[k] IN
       /\ (u.v < 0 \/ u.v > Unit) =>
            u.exc = TypeError(4) /\ u.now = u.was /\ CallsOf(k) = << >>
       /\ (0 <= u.v /\ u.v <= Unit /\ u.v < u.was) =>
            u.exc = Error(4) /\ u.now = u.was /\ CallsOf(k) = << >>
       /\ u.was <= u.now

\* an update above 1 and an update below the stored progress have run
C27_Witness ==
  /\ \E k \in 1..Len(updates) : updates[k].v > Unit
  /\ \E k \in 1..Len(updates) :
       0 <= updates[k].v /\ updates[k].v < updates[k].was

\* C28: listener notification.  An update to a value above the stored
\* progress and below 1 calls the listeners registered then, each once per
\* registration, with the new value and in registration order; an update
\* equal to the stored progress or to 1 calls none.
C28_ListenersNotified ==
  \A k \in 1..Len(updates) :
    LET u == updates[k] IN
    /\ (u.was < u.v /\ u.v < Unit) =>
         CallsOf(k) = [i \in 1..Len(u.ls) |->
                         [p |-> u.p, l |-> u.ls[i], v |-> Val(u.v),
                          u |-> k]]
    /\ (u.v = u.was \/ u.v = Unit) => CallsOf(k) = << >>

\* an update notified a listener registered twice, another was equal to 1
C28_Witness ==
  /\ \E k \in 1..Len(updates) :
       /\ updates[k].ls = <<1, 1>>
       /\ updates[k].was < updates[k].v /\ updates[k].v < Unit
  /\ \E k \in 1..Len(updates) : updates[k].v = Unit

\* the values of the updates of p that its progress function scheduled
TickUpdates(p) ==
  LET ks == SelectSeq([k \in 1..Len(updates) |-> k],
                      LAMBDA k : updates[k].p = p /\ updates[k].tick)
  IN [i \in 1..Len(ks) |-> updates[ks[i]].v]
\* the fulfilment handler of registration i has been called
CalledF(i) == \E j \in 1..Len(log) : log[j].id = i /\ log[j].s = "F"

C30_ParentOnlyPending ==
  \A p \in Promises : parent_[p] # 0 => state_[p] = PENDING

\* of the children made by then, which had their links when made, one is
\* BLOCKED and one is settled
C30_Witness ==
  /\ \E i \in 1..Len(regs) :
       regs[i].child # 0 /\ state_[regs[i].child] = BLOCKED
  /\ \E i \in 1..Len(regs) :
       regs[i].child # 0 /\ Settled(state_[regs[i].child])

\* ------------------------------------------------ rejecting a promise ----
\* this step makes the first call of p's resolve or reject, and it is a
\* rejection of pending p with a reason that is no cancellation error
Rejects(p) ==
  /\ numCalls[p] = 0 /\ numCalls'[p] > 0
  /\ firstCall'[p].state = REJECTED /\ firstCall'[p].at = PENDING
  /\ ~IsCancellationError(firstCall'[p].x)

\* C31: rejecting with any reason that is no cancellation error, an absent
\* one included.  The step that rejects pending p with reason x throws
\* nothing at the caller, leaves p REJECTED with x, sets its
\* unhandled-rejection flag and schedules its check with x; and once
\* nothing is left scheduled, a promise so rejected on which nothing was
\* registered has had its reason handed to the reporter.
C31_RejectTracked ==
  [][ \A p \in Pid :
        /\ Rejects(p) =>
             /\ uncaught' = uncaught
             /\ state_'[p] = REJECTED
             /\ result_'[p] = firstCall'[p].x
             /\ hadUnhandledRejection_'[p]
             /\ CheckTask(p, firstCall'[p].x) \in Range(workQueue')
        /\ ( /\ state_'[p] = REJECTED
             /\ ~IsCancellationError(result_'[p])
             /\ workQueue' = << >>
             /\ \A i \in 1..Len(regs') : regs'[i].p # p ) =>
             result_'[p] \in Range(reported') ]_vars

\* ------------------------------------------------------- drain liveness --
\* a drain of p is scheduled
DrainScheduled(p) ==
  \E k \in 1..Len(workQueue) : workQueue[k].t = "exec" /\ workQueue[k].p = p

\* C32: drain liveness.  Between the scheduler's steps executing_ of a
\* promise is true exactly when a drain of it is scheduled; a settled
\* promise whose drain is not scheduled has an empty queue, so that once
\* the scheduled functions have run every callback registered on a
\* settled promise has been executed, whatever the outcome and the result.
C32_DrainCompletes ==
  \A p \in Promises :
    /\ executing_[p] <=> DrainScheduled(p)
    /\ (Settled(state_[p]) /\ ~DrainScheduled(p)) => QueueOf(p) = << >>

\* ---------------------------------------------------- handlers that throw --
\* C34: what a user handler throws never leaves the drain.  A drain throws
\* nothing into the scheduler and leaves the queue of its promise empty;
\* what a handler given to then threw during it, undefined included, is
\* the reason its child is REJECTED with, and what a handler given to
\* thenVoid or thenAlways threw has been handed to the reporter.
C34_NoEscape ==
  [][ last'.a = "exec" =>
        /\ uncaught' = uncaught
        /\ callbackEntries_'[last'.p] = 0
        /\ \A j \in (Len(log) + 1)..Len(log') :
             LET c == log'[j]
                 r == regs'[c.id]
                 h == IF c.s = "F" THEN r.onF ELSE r.onR
             IN h.b = "throw" =>
                  IF r.kind = "then"
                  THEN /\ state_'[r.child] = REJECTED
                       /\ result_'[r.child] = h.v
                  ELSE h.v \in Range(reported') ]_vars

\* ------------------------------------------------- no rejection is lost --
\* the reason of REJECTED p has been given to an entry of p that is no
\* always entry and has a rejection handler: a handler registered on p by
\* then or thenVoid was called with it, or a child made by then without
\* rejection handler was rejected with it
GivenToEntry(p) ==
  \E i \in 1..Len(regs) :
    /\ regs[i].p = p
    /\ regs[i].kind \in {"then", "thenCatch", "thenVoid"}
    /\ IF IsNullFn(regs[i].onR)
       THEN /\ regs[i].child # 0
            /\ state_[regs[i].child] = REJECTED
            /\ result_[regs[i].child] = result_[p]
       ELSE \E j \in 1..Len(log) :
              log[j].id = i /\ log[j].s = "R" /\ log[j].arg = result_[p]

\* C33: no rejection is lost.  The unhandled-rejection flag of a promise
\* REJECTED with a reason R that is no cancellation error is cleared only
\* in a step that has given R to an entry of the promise that is no always
\* entry and has a rejection handler, and the check that finds the flag
\* set hands R to the reporter: cancelling a child does not clear it.
C33_NoLostRejection ==
  [][ /\ \A p \in Pid :
           ( /\ state_[p] = REJECTED /\ ~IsCancellationError(result_[p])
             /\ hadUnhandledRejection_[p]
             /\ ~hadUnhandledRejection_'[p] ) => GivenToEntry(p)'
      /\ (last'.a = "check" /\ hadUnhandledRejection_[last'.p]) =>
           reported' = Append(reported, Head(workQueue).v) ]_vars

\* ------------------------------------------------------ callback queue ---
\* One promise with up to three callbacks, its children and theirs:
\* registrations, cancellations of any promise, settlement and drains.
QueueRoots == 1
QueueRegs  == 3
QueueCalls == 1
QueueHandlers(p) == {Plain, UserFn("reg", PRef(p))}

NextQueue ==
  \/ /\ NumRoots < QueueRoots
     /\ Construct(<< >>)
  \/ \E p \in Pid, state \in {FULFILLED, REJECTED} :
        numCalls[p] = 0 /\ Settle(p, state, Val(1))
  \/ /\ UserRegs < QueueRegs
     /\ \E p \in Pid : \/ Then(p, NullFn, NullFn)
                        \/ \E h \in QueueHandlers(p) : Then(p, h, h)
  \/ /\ UserRegs < QueueRegs
     /\ \E p \in Pid : ThenVoid(p, Plain, Plain)
  \/ /\ UserRegs < QueueRegs
     /\ \E p \in Pid : ThenAlways(p, Plain)
  \/ /\ numCancels < QueueCalls
     /\ \E p \in Pid : Cancel(p, 0)
  \/ RunTask

SpecQueue == Init /\ [][NextQueue]_vars

\* the registration that queued entry e: the one that made its child, or
\* the one its handler is named after
RegIdx(e) ==
  IF entries[e].child # 0 THEN RegOf(entries[e].child)
  ELSE entries[e].onFulfilled.id

\* C35: callback-queue structure.  In every state, for every promise, the
\* head is null exactly when the tail is, the tail is the last entry
\* reachable from the head and has no successor, no entry appears twice
\* in a queue or in two queues, and the entries are in the order of their
\* registration.
C35_QueueStructure ==
  /\ \A p \in Promises :
       LET q == QueueOf(p) IN
       /\ callbackEntries_[p] = 0 <=> callbackEntriesTail_[p] = 0
       /\ q # << >> =>
            /\ q[Len(q)] = callbackEntriesTail_[p]
            /\ entries[callbackEntriesTail_[p]].next = 0
       /\ \A i, j \in 1..Len(q) :
            i < j => q[i] # q[j] /\ RegIdx(q[i]) < RegIdx(q[j])
  /\ \A p, r \in Promises :
       p # r => Range(QueueOf(p)) \cap Range(QueueOf(r)) = {}

\* of three children registered on a pending promise the second has been
\* cancelled, and the queue holds the entries of the first and the third
C35_Witness ==
  /\ Len(regs) = 3
  /\ \A i \in 1..3 : regs[i].p = regs[1].p /\ regs[i].child # 0
  /\ state_[regs[1].p] = PENDING
  /\ IsCancellationError(result_[regs[2].child])
  /\ Len(QueueOf(regs[1].p)) = 2

\* -------------------------------------------------- callback-entry pool --
\* the entries linked in the queue of some promise
Linked == UNION {Range(QueueOf(p)) : p \in Promises}
\* the handler calls made for registration i
CallsFor(i) == {k \in 1..Len(log) : log[k].id = i}

\* C36: callback-entry pool.  Between steps every entry ever allocated is
\* either linked in a queue, waiting to be executed, or in the free list,
\* executed and released, never both and never neither; the free list
\* holds no entry twice and at most DEFAULT_MAX_UNUSED entries, each with
\* child and handlers cleared and always false; and no registration has
\* its callback executed twice.
C36_Pool ==
  /\ \A e \in 1..numEntries : e \in Linked <=> e \notin Range(freelist_)
  /\ Len(freelist_) <= DEFAULT_MAX_UNUSED
  /\ \A i, j \in 1..Len(freelist_) : i < j => freelist_[i] # freelist_[j]
  /\ \A i \in 1..Len(freelist_) : entries[freelist_[i]] = reset(entries[freelist_[i]])
  /\ \A i \in 1..Len(regs) : Cardinality(CallsFor(i)) <= 1

\* ------------------------------------------- progress and child promises --
\* A ProgressPromise whose resolver issues updates, children made of it by
\* then, and listeners registered on the promise and on its children.
ChildRoots     == 1
ChildRegs      == 2
ChildListeners == 1   \* progress(listener) calls per promise
ChildResolvers ==
  {<<Prog(1)>>, <<Prog(1), Prog(2)>>, <<Prog(2), Res>>, <<Res, Prog(1)>>}

NextChildProgress ==
  \/ \E steps \in ChildResolvers :
       NumRoots < ChildRoots /\ ConstructProgress(steps)
  \/ \E p \in Promises, l \in Listeners :
       Len(listeners_[p]) < ChildListeners /\ Progress(p, l)
  \/ \E p \in Promises, h \in ProgressHandlers :
       UserRegs < ChildRegs /\ ProgressThen(p, h, NullFn)
  \/ RunTask

SpecChildProgress == Init /\ [][NextChildProgress]_vars

\* C37: progress reaches the children.  The step that stores a new
\* progress value for a ProgressPromise calls, with that value, every
\* listener registered on each child made of it by then whose callback
\* is still queued on it, besides the promise's own listeners.
C37_ChildrenNotified ==
  [][ \A p \in Promises :
        progress_'[p] # progress_[p] =>
          \A i \in 1..Len(regs) :
            (regs[i].p = p /\ regs[i].child # 0
               /\ parent_[regs[i].child] = p) =>
              \A n \in 1..Len(listeners_[regs[i].child]) :
                \E j \in (Len(plog) + 1)..Len(plog') :
                  /\ plog'[j].p = regs[i].child
                  /\ plog'[j].l = listeners_[regs[i].child][n]
                  /\ plog'[j].v = Val(progress_'[p]) ]_vars

\* ------------------------------------------- then on a ProgressPromise ---
\* A ProgressPromise and a CancellablePromise settled alike at
\* construction, and then called on either with the same handlers.
ComposeRoots == 2
ComposeRegs  == 2
ComposeSteps == { << [op |-> "res", v |-> Val(1)] >>,
                  << [op |-> "rej", v |-> Val(1)] >> }
ComposeHandlers == {NullFn, Plain, UserFn("throw", Val(5))}

NextCompose ==
  \/ \E steps \in ComposeSteps :
       NumRoots < ComposeRoots /\ ConstructProgress(steps)
  \/ \E steps \in ComposeSteps :
       NumRoots < ComposeRoots /\ Construct(steps)
  \/ \E p \in Roots, onF \in ComposeHandlers, onR \in ComposeHandlers :
       /\ UserRegs < ComposeRegs
       /\ \/ ProgressThen(p, onF, onR)
          \/ Then(p, onF, onR)
  \/ RunTask

SpecCompose == Init /\ [][NextCompose]_vars

\* the registrations made by then on a ProgressPromise
ProgressThens == {i \in 1..Len(regs) : regs[i].kind = "progressThen"}
\* the registrations whose handlers were called, in the order of the calls
CallOrder == [k \in 1..Len(log) |-> log[k].id]

\* C38: then on a ProgressPromise composes as then on a CancellablePromise
\* does.  Once nothing is left scheduled, the child of a then on a settled
\* ProgressPromise has the state and the result of the child of a then
\* with the same handlers on a CancellablePromise settled alike; and every
\* then on a settled ProgressPromise for which the outcome selects a
\* handler has had it called, in registration order, the queue is empty
\* and the drain is over.
C38_SameComposition ==
  workQueue = << >> =>
    /\ \A i \in ProgressThens : \A j \in Thens :
         ( /\ regs[i].onF = regs[j].onF /\ regs[i].onR = regs[j].onR
           /\ Settled(state_[regs[i].p])
           /\ state_[regs[i].p] = state_[regs[j].p]
           /\ result_[regs[i].p] = result_[regs[j].p] ) =>
           /\ state_[regs[i].child] = state_[regs[j].child]
           /\ result_[regs[i].child] = result_[regs[j].child]
    /\ \A i \in ProgressThens :
         Settled(state_[regs[i].p]) =>
           /\ ~IsNullFn(IF state_[regs[i].p] = FULFILLED THEN regs[i].onF
                        ELSE regs[i].onR) => Called(i)
           /\ QueueOf(regs[i].p) = << >>
           /\ ~executing_[regs[i].p]
    /\ \A k, m \in 1..Len(CallOrder) :
         (k < m /\ regs[CallOrder[k]].p = regs[CallOrder[m]].p) =>
           CallOrder[k] < CallOrder[m]

\* ----------------------------------------------------------------------
\* Blocked promises: a root resolved with a second root or
\* with a foreign thenable that never calls back, children made by then
\* and thenAlways callbacks on the roots, cancel() anywhere, and the
\* second root settled at any time.
\* ----------------------------------------------------------------------
BlockedRoots == 2
BlockedRegs  == 2
BlockedCalls == 1

\* what the first root is resolved with: the second root or
\* a foreign thenable that never calls back
OuterSettles ==
  {<<FULFILLED, Thenable(4, 0)>>}
    \cup {<<FULFILLED, PRef(q)>> : q \in Roots \ {1}}
\* what the second root is settled with
InnerSettles ==
  {<<FULFILLED, Val(1)>>, <<REJECTED, Val(1)>>, <<REJECTED, Undef>>}
BlockedHandlers == {NullFn, UserFn("ret", Undef), UserFn("ret", Val(4))}

NextBlocked ==
  \/ /\ NumRoots < BlockedRoots
     /\ Construct(<< >>)
  \/ \E p \in Roots :
       \E s \in IF p = 1 THEN OuterSettles ELSE InnerSettles :
          numCalls[p] = 0 /\ Settle(p, s[1], s[2])
  \/ /\ UserRegs < BlockedRegs
     /\ \E p \in Roots, h \in BlockedHandlers : Then(p, NullFn, h)
  \/ /\ UserRegs < BlockedRegs
     /\ \E p \in Roots : ThenAlways(p, Plain)
  \/ /\ numCancels < BlockedCalls
     /\ \E p \in Pid : Cancel(p, 0)
  \/ RunTask

SpecBlocked == Init /\ [][NextBlocked]_vars

\* promise p is BLOCKED on the value its first settling call gave it
BlockedOnInner(p) == state_[p] = BLOCKED /\ numCalls[p] > 0

\* the scheduled cancellation of c is about to run, c being the only
\* child that is not an always entry of the blocked promise a
CancelsOnlyOf(c, a) ==
  /\ workQueue # << >>
  /\ Head(workQueue).t = "cancel" /\ Head(workQueue).p = c
  /\ state_[c] = PENDING /\ parent_[c] = a
  /\ BlockedOnInner(a)
  /\ Len(NonAlways(a)) = 1
  /\ entries[NonAlways(a)[1]].child = c

\* C39: a promise BLOCKED on an inner thenable is never cancelled.  A
\* cancel() call on it and a scheduled cancellation that finds it blocked
\* change no promise and call no handler; the scheduled cancellation of
\* its only child that is not an always entry leaves that child REJECTED
\* with the cancellation error and every other promise, the blocked one
\* and the inner one included, as it was; the blocked promise changes
\* state only to take the state and result of the inner promise, and has
\* done so once the inner promise is settled and everything scheduled has
\* run.
C39_BlockedNotCancelled ==
  [][ /\ \A p \in Pid :
           BlockedOnInner(p) /\ last'.a = "callCancel" /\ last'.p = p =>
             heap' = heap /\ log' = log
      /\ \A p \in Pid :
           BlockedOnInner(p) /\ last'.a = "cancel" /\ last'.p = p =>
             /\ <<state_, result_, parent_, callbackEntries_,
                   callbackEntriesTail_, executing_, entries, log>>'
                = <<state_, result_, parent_, callbackEntries_,
                    callbackEntriesTail_, executing_, entries, log>>
             /\ workQueue' = Tail(workQueue)
      /\ \A c, a \in Pid :
           CancelsOnlyOf(c, a) /\ last'.a = "cancel" =>
             /\ state_'[c] = REJECTED /\ result_'[c] = Head(workQueue).v
             /\ \A q \in Pid \ {c} :
                  state_'[q] = state_[q] /\ result_'[q] = result_[q]
      /\ \A p \in Pid :
           BlockedOnInner(p) /\ state_'[p] # BLOCKED =>
             /\ firstCall[p].x.k = "promise"
             /\ Settled(state_'[p])
             /\ state_'[p] = state_'[firstCall[p].x.n]
             /\ result_'[p] = result_'[firstCall[p].x.n]
      /\ (workQueue = << >> =>
            \A p \in Pid :
               BlockedOnInner(p) /\ firstCall[p].x.k = "promise" =>
                 ~Settled(state_[firstCall[p].x.n]))' ]_vars

\* the only child of a blocked promise has been cancelled and the inner
\* promise has settled afterwards, unblocking the promise
C39_Witness ==
  \E p, q, c \in Pid :
    /\ numCalls[p] > 0 /\ firstCall[p].x = PRef(q)
    /\ firstCall[p].at = PENDING
    /\ Settled(state_[p]) /\ state_[p] = state_[q]
    /\ \E i \in 1..Len(regs) : regs[i].p = p /\ regs[i].child = c
    /\ state_[c] = REJECTED /\ IsCancellationError(result_[c])
    /\ \E k \in 1..Len(cancels) : cancels[k].p = c

\* two cancel() calls were made on the pending promise c before either
\* scheduled cancellation ran, the first has just run and the second is
\* the next function the scheduler runs
SecondOfTwo(c) ==
  /\ last.a = "cancel" /\ last.p = c
  /\ Len(cancels) = 1 /\ cancels[1].at = PENDING
  /\ workQueue # << >>
  /\ Head(workQueue).t = "cancel" /\ Head(workQueue).p = c

\* C40: cancel is idempotent.  When two cancel() calls were made on one
\* pending promise before either scheduled cancellation ran, the second
\* scheduled cancellation changes the state and the result of no promise
\* and calls no handler, and every cancellation error that is then the
\* result of a promise is the error built for the first call: what
\* follows, and so the final state of the chain, is what follows one
\* call.
C40_Idempotent ==
  [][ \A c \in Pid :
        SecondOfTwo(c) /\ last'.a = "cancel" =>
          /\ \A q \in Pid :
                state_'[q] = state_[q] /\ result_'[q] = result_[q]
          /\ log' = log
          /\ \A q \in Pid :
                IsCancellationError(result_'[q]) => result_'[q].n = 1 ]_vars
====
